---- MODULE Spec2Model ----
(***************************************************************************)
(* Transactional outbox of chalk-api: the outbox_events table             *)
(* (pkg/repositories/outbox_repository.go), the publisher                 *)
(* (pkg/events/publisher.go), the dispatcher (pkg/events/dispatcher.go),  *)
(* the polling worker (pkg/workers/outbox_worker.go) and the SendMessage  *)
(* transaction (pkg/services/message_service.go).                         *)
(*                                                                         *)
(* Time is counted in seconds.  A nullable timestamp is a set: {} is NULL, *)
(* {t} is the timestamp t.                                                 *)
(***************************************************************************)
EXTENDS Integers, Sequences, FiniteSets, TLC

\* ---------------------------------------------------------------- bounds
Workers == {"w1", "w2"}
MaxId == 2             \* outbox ids handed out by the id sequence
MaxMessages == 1       \* message ids handed out by the messages sequence
MaxTime == 30          \* the clock stops advancing here
ClockStep == 15        \* seconds the clock advances in one step
MaxCrashes == 1        \* worker process crashes followed
MaxRows == 3            \* rows of the table a lone ClaimPending reads
MaxAvail == 2           \* latest available_at, and time read, of that call
MaxBackoffAttempt == 60 \* attempt numbers handed to backoffForAttempt

\* ------------------------------------------------- worker configuration
BatchSize == 1         \* OutboxWorkerConfig.BatchSize
MaxAttempts == 2       \* OutboxWorkerConfig.MaxAttempts
StuckAfter == 10       \* OutboxWorkerConfig.StuckAfter, seconds

\* ---------------------------------------------------- program constants
BaseDelay == 15        \* 15 * time.Second
MaxDelay == 900        \* 15 * time.Minute
DefaultLimit == 25     \* ClaimPending's limit when limit <= 0
DefaultOlderThan == 600 \* RequeueStuckProcessing's olderThan when <= 0

OutboxStatusPending == "pending"
OutboxStatusProcessing == "processing"
OutboxStatusProcessed == "processed"
OutboxStatusFailed == "failed"

EventTypeMessageSent == "message.sent"
EventTypeWorkoutAssigned == "workout.assigned"
EventTypeWorkoutCompleted == "workout.completed"
EventTypeSessionBooked == "session.booked"
EventTypeInviteAccepted == "invite.accepted"
EventTypeSubscriptionChanged == "subscription.changed"
EventTypeNotificationPush == "notification.push"

EventTypes == {EventTypeMessageSent, EventTypeWorkoutAssigned,
               EventTypeWorkoutCompleted, EventTypeSessionBooked,
               EventTypeInviteAccepted, EventTypeSubscriptionChanged,
               EventTypeNotificationPush}

NULL == {}

\* Invite ids a client can accept (AcceptInvite publishes standalone).
Invites == {1, 2}
\* Payload values handed to Publish; "chan" stands for a value json.Marshal
\* rejects.
Payloads == {"struct", "chan"}
\* What a handler invocation can return.
Outcomes == {"nil", "transient", "permanent"}

\* ------------------------------------------------------ pure functions

\* events.BuildIdempotencyKey: the event type joined with the parts by ":".
BuildIdempotencyKey(eventType, parts) ==
    IF Len(parts) = 0 THEN <<eventType>> ELSE <<eventType>> \o parts

\* json.Marshal in buildOutboxEvent: an error for an unserialisable value.
Marshal(payload) ==
    IF payload = "chan" THEN [err |-> TRUE, raw |-> ""]
    ELSE [err |-> FALSE, raw |-> "json:" \o payload]

\* events.buildOutboxEvent: the record handed to Enqueue, or an error.
buildOutboxEvent(eventType, aggregateType, aggregateID, idempotencyKey, payload, t) ==
    LET m == Marshal(payload) IN
    IF m.err THEN [err |-> TRUE]
    ELSE [err |-> FALSE,
          event |-> [id |-> 0,
                     event_type |-> eventType,
                     aggregate_type |-> aggregateType,
                     aggregate_id |-> aggregateID,
                     idempotency_key |-> idempotencyKey,
                     payload |-> m.raw,
                     status |-> OutboxStatusPending,
                     attempts |-> 0,
                     available_at |-> t,
                     processing_started |-> NULL,
                     processed_at |-> NULL,
                     last_error |-> NULL]]

\* The loop of backoffForAttempt: delay doubles for i = 1 .. attempt-1 and
\* the function returns maxDelay as soon as delay reaches it.
RECURSIVE BackoffLoop(_, _, _)
BackoffLoop(delay, i, attempt) ==
    IF i < attempt
    THEN IF delay * 2 >= MaxDelay THEN MaxDelay
         ELSE BackoffLoop(delay * 2, i + 1, attempt)
    ELSE delay

\* backoffForAttempt whose loop starts at i = 0.
backoffForAttemptFromZero(attempt) ==
    IF attempt <= 1 THEN BaseDelay ELSE BackoffLoop(BaseDelay, 0, attempt)

backoffForAttempt(attempt) ==
    IF attempt <= 1 THEN BaseDelay ELSE BackoffLoop(BaseDelay, 1, attempt)

\* events.IsPermanent: errors.As finds a NonRetryableError in the chain.
IsPermanent(err) == err = "permanent"

\* ------------------------------------------------------------- the store

\* The message of the error PostgreSQL returns for a unique-index conflict.
UniqueViolationMsg == "duplicate key value violates unique constraint"

\* isUniqueViolation matching no message.
isUniqueViolationNever(err) == FALSE

\* isUniqueViolation: err.Error() contains the PostgreSQL message.
isUniqueViolation(err) == err = UniqueViolationMsg

\* An insert that overwrites the row holding the idempotency key
\* (ON CONFLICT DO UPDATE).
CreateUpserting(rs, id, event) ==
    IF \E i \in DOMAIN rs : rs[i].idempotency_key = event.idempotency_key
    THEN [rows |-> [i \in DOMAIN rs |->
                       IF rs[i].idempotency_key = event.idempotency_key
                       THEN [event EXCEPT !.id = i] ELSE rs[i]],
          err |-> "nil"]
    ELSE [rows |-> [i \in DOMAIN rs \cup {id} |->
                       IF i = id THEN [event EXCEPT !.id = id] ELSE rs[i]],
          err |-> "nil"]

\* db.Create(event) on the table state rs the statement sees: the row is
\* stored under the sequence value id, unless the unique index on
\* idempotency_key rejects it.
Create(rs, id, event) ==
    IF \E i \in DOMAIN rs : rs[i].idempotency_key = event.idempotency_key
    THEN [rows |-> rs, err |-> UniqueViolationMsg]
    ELSE [rows |-> [i \in DOMAIN rs \cup {id} |->
                       IF i = id THEN [event EXCEPT !.id = id] ELSE rs[i]],
          err |-> "nil"]

\* OutboxRepository.enqueueWithDB: the status defaults to pending and a
\* unique violation is reported as success.  (buildOutboxEvent always sets
\* AvailableAt, so the IsZero default never applies.)
enqueueWithDB(rs, id, event) ==
    LET ev == [event EXCEPT !.status = IF @ = "" THEN OutboxStatusPending ELSE @]
        res == Create(rs, id, ev)
    IN  IF res.err # "nil" /\ isUniqueViolation(res.err)
        THEN [rows |-> res.rows, err |-> "nil"]
        ELSE res

\* Errors of the store other than a unique violation; "nil" for a store
\* that answers.
Faults == {"nil", "connection refused"}

\* A store that inserts the row and then reports the fault.
CreateOnAfterWrite(rs, id, event, fault) ==
    IF fault # "nil" THEN [rows |-> Create(rs, id, event).rows, err |-> fault]
    ELSE Create(rs, id, event)

\* db.Create(event) on a store that may fail: with a fault the statement
\* returns the error and stores nothing.
CreateOn(rs, id, event, fault) ==
    IF fault # "nil" THEN [rows |-> rs, err |-> fault]
    ELSE Create(rs, id, event)

\* OutboxRepository.enqueueWithDB on a store that may fail; createErr is
\* the error db.Create returned.
enqueueWithDBOn(rs, id, event, fault) ==
    LET ev == [event EXCEPT !.status = IF @ = "" THEN OutboxStatusPending ELSE @]
        res == CreateOn(rs, id, ev, fault)
    IN  IF res.err # "nil" /\ isUniqueViolation(res.err)
        THEN [rows |-> res.rows, err |-> "nil", createErr |-> res.err]
        ELSE [rows |-> res.rows, err |-> res.err, createErr |-> res.err]

\* Publisher.Publish on the table rs: the error returned, the table after
\* the call and the error db.Create returned, "none" when the store was
\* not contacted.
PublisherPublish(rs, id, eventType, aggregateType, aggregateID, idempotencyKey, payload, t, fault) ==
    LET b == buildOutboxEvent(eventType, aggregateType, aggregateID,
                              idempotencyKey, payload, t)
    IN  IF b.err
        THEN [rows |-> rs, err |-> "marshal outbox payload",
              createErr |-> "none"]
        ELSE enqueueWithDBOn(rs, id, b.event, fault)

\* Publisher.PublishInTx in a transaction that has inserted txRows: the
\* statement sees the committed rows and the transaction's own inserts, and
\* what it inserts stays in the transaction.
PublisherPublishInTx(rs, txRows, id, eventType, aggregateType, aggregateID, idempotencyKey, payload, t, fault) ==
    LET seen == [i \in DOMAIN rs \cup DOMAIN txRows |->
                    IF i \in DOMAIN txRows THEN txRows[i] ELSE rs[i]]
        res == PublisherPublish(seen, id, eventType, aggregateType,
                                aggregateID, idempotencyKey, payload, t, fault)
    IN  [rows |-> rs,
         txRows |-> [i \in DOMAIN res.rows \ DOMAIN rs |-> res.rows[i]],
         err |-> res.err,
         createErr |-> res.createErr]

\* Eligible without the row locks: a plain SELECT.
EligibleIgnoringLocks(rs, t, lockedIds) ==
    {i \in DOMAIN rs : /\ rs[i].status = OutboxStatusPending
                       /\ rs[i].available_at <= t}

\* Eligible without the test of available_at.
EligibleBeforeDue(rs, t, lockedIds) ==
    {i \in DOMAIN rs : /\ rs[i].status = OutboxStatusPending
                       /\ i \notin lockedIds}

\* WHERE status = 'pending' AND available_at <= now ... FOR UPDATE SKIP LOCKED
Eligible(rs, t, lockedIds) ==
    {i \in DOMAIN rs : /\ rs[i].status = OutboxStatusPending
                       /\ rs[i].available_at <= t
                       /\ i \notin lockedIds}

\* ORDER BY id ASC
BeforeById(rs, i, j) == i < j

\* ORDER BY available_at ASC, id ASC
Before(rs, i, j) ==
    \/ rs[i].available_at < rs[j].available_at
    \/ rs[i].available_at = rs[j].available_at /\ i < j

RECURSIVE OrderedLimit(_, _, _)
OrderedLimit(rs, ids, limit) ==
    IF ids = {} \/ limit <= 0 THEN <<>>
    ELSE LET first == CHOOSE i \in ids : \A j \in ids \ {i} : Before(rs, i, j)
         IN <<first>> \o OrderedLimit(rs, ids \ {first}, limit - 1)

\* The SELECT with LIMIT applied before the locked rows are skipped.
SelectForClaimLimitFirst(rs, t, lockedIds, limit) ==
    LET first == OrderedLimit(rs, EligibleIgnoringLocks(rs, t, lockedIds),
                              IF limit <= 0 THEN DefaultLimit ELSE limit)
    IN  SelectSeq(first, LAMBDA i : i \notin lockedIds)

\* The SELECT of ClaimPending: ids of the rows it locks, in order.
SelectForClaim(rs, t, lockedIds, limit) ==
    OrderedLimit(rs, Eligible(rs, t, lockedIds),
                 IF limit <= 0 THEN DefaultLimit ELSE limit)

Min(a, b) == IF a <= b THEN a ELSE b

SeqToSet(s) == {s[k] : k \in 1..Len(s)}

\* The UPDATE of ClaimPending leaving processing_started alone.
ClaimUpdateWithoutStart(rs, ids, t) ==
    [i \in DOMAIN rs |->
        IF i \in ids
        THEN [rs[i] EXCEPT !.status = OutboxStatusProcessing]
        ELSE rs[i]]

\* The UPDATE of ClaimPending: WHERE id IN ids.
ClaimUpdate(rs, ids, t) ==
    [i \in DOMAIN rs |->
        IF i \in ids
        THEN [rs[i] EXCEPT !.status = OutboxStatusProcessing,
                           !.processing_started = {t}]
        ELSE rs[i]]

\* OutboxRepository.MarkProcessed: UPDATE ... WHERE id = ?
MarkProcessed(rs, id, t) ==
    [i \in DOMAIN rs |->
        IF i = id
        THEN [rs[i] EXCEPT !.status = OutboxStatusProcessed,
                           !.processed_at = {t},
                           !.processing_started = NULL,
                           !.last_error = NULL]
        ELSE rs[i]]

\* MarkRetry that leaves available_at alone.
MarkRetryKeepingAvailableAt(rs, id, attempts, lastError, nextAttemptAt) ==
    [i \in DOMAIN rs |->
        IF i = id
        THEN [rs[i] EXCEPT !.status = OutboxStatusPending,
                           !.attempts = attempts,
                           !.last_error = {lastError},
                           !.processing_started = NULL]
        ELSE rs[i]]

\* MarkRetry that leaves the status alone.
MarkRetryKeepingStatus(rs, id, attempts, lastError, nextAttemptAt) ==
    [i \in DOMAIN rs |->
        IF i = id
        THEN [rs[i] EXCEPT !.attempts = attempts,
                           !.last_error = {lastError},
                           !.available_at = nextAttemptAt,
                           !.processing_started = NULL]
        ELSE rs[i]]

\* OutboxRepository.MarkRetry: UPDATE ... WHERE id = ?
MarkRetry(rs, id, attempts, lastError, nextAttemptAt) ==
    [i \in DOMAIN rs |->
        IF i = id
        THEN [rs[i] EXCEPT !.status = OutboxStatusPending,
                           !.attempts = attempts,
                           !.last_error = {lastError},
                           !.available_at = nextAttemptAt,
                           !.processing_started = NULL]
        ELSE rs[i]]

\* MarkFailed that also blanks the payload of the dead event.
MarkFailedBlankingPayload(rs, id, attempts, lastError) ==
    [i \in DOMAIN rs |->
        IF i = id
        THEN [rs[i] EXCEPT !.status = OutboxStatusFailed,
                           !.attempts = attempts,
                           !.last_error = {lastError},
                           !.processing_started = NULL,
                           !.payload = ""]
        ELSE rs[i]]

\* OutboxRepository.MarkFailed: UPDATE ... WHERE id = ?
MarkFailed(rs, id, attempts, lastError) ==
    [i \in DOMAIN rs |->
        IF i = id
        THEN [rs[i] EXCEPT !.status = OutboxStatusFailed,
                           !.attempts = attempts,
                           !.last_error = {lastError},
                           !.processing_started = NULL]
        ELSE rs[i]]

\* Stuck without the cutoff: every processing row.
StuckAnyAge(rs, olderThan, t) ==
    {i \in DOMAIN rs : /\ rs[i].status = OutboxStatusProcessing
                       /\ rs[i].processing_started # NULL}

\* The rows RequeueStuckProcessing's WHERE clause matches.
Stuck(rs, olderThan, t) ==
    LET cutoff == t - (IF olderThan <= 0 THEN DefaultOlderThan ELSE olderThan) IN
    {i \in DOMAIN rs : /\ rs[i].status = OutboxStatusProcessing
                       /\ rs[i].processing_started # NULL
                       /\ \E ps \in rs[i].processing_started : ps < cutoff}

\* RequeueStuckProcessing whose UPDATE matches no row.
RequeueStuckProcessingNoRows(rs, olderThan, t) == rs

\* RequeueStuckProcessing leaving processing_started alone.
RequeueStuckProcessingKeepingStarted(rs, olderThan, t) ==
    [i \in DOMAIN rs |->
        IF i \in Stuck(rs, olderThan, t)
        THEN [rs[i] EXCEPT !.status = OutboxStatusPending,
                           !.available_at = t]
        ELSE rs[i]]

\* OutboxRepository.RequeueStuckProcessing
RequeueStuckProcessing(rs, olderThan, t) ==
    [i \in DOMAIN rs |->
        IF i \in Stuck(rs, olderThan, t)
        THEN [rs[i] EXCEPT !.status = OutboxStatusPending,
                           !.available_at = t,
                           !.processing_started = NULL]
        ELSE rs[i]]

\* ------------------------------------------------------------ dispatcher

\* Handler invocations counted per event: one more than the attempt cap.
MaxDispatch == MaxAttempts + 1

\* NewDispatcher: no handler registered.
NoHandlers == [t \in {} |-> ""]

\* Register that replaces the handler already registered.
RegisterOverwriting(handlers, eventType, handler) ==
    [handlers |-> [t \in DOMAIN handlers \cup {eventType} |->
                      IF t = eventType THEN handler ELSE handlers[t]],
     err |-> "nil"]

\* Dispatcher.Register: an error when the event type has a handler,
\* otherwise the handler is stored.
Register(handlers, eventType, handler) ==
    IF eventType \in DOMAIN handlers
    THEN [handlers |-> handlers, err |-> "handler already registered"]
    ELSE [handlers |-> [t \in DOMAIN handlers \cup {eventType} |->
                           IF t = eventType THEN handler ELSE handlers[t]],
          err |-> "nil"]

\* The handlers RegisterDefaultHandlers registers, in its order: the push
\* handler when the Expo integration is configured, then the logging
\* handlers of the domain events.
DefaultRegistrations(expo) ==
    (IF expo THEN <<<<EventTypeNotificationPush, "push">>>> ELSE <<>>) \o
    << <<EventTypeMessageSent, "log:message.sent">>,
       <<EventTypeWorkoutAssigned, "log:workout.assigned">>,
       <<EventTypeWorkoutCompleted, "log:workout.completed">>,
       <<EventTypeSessionBooked, "log:session.booked">>,
       <<EventTypeInviteAccepted, "log:invite.accepted">>,
       <<EventTypeSubscriptionChanged, "log:subscription.changed">> >>

\* Register called for each element of regs, until one call fails.
RECURSIVE RegisterAll(_, _)
RegisterAll(handlers, regs) ==
    IF regs = <<>> THEN [handlers |-> handlers, err |-> "nil"]
    ELSE LET r == Register(handlers, Head(regs)[1], Head(regs)[2]) IN
         IF r.err # "nil" THEN r ELSE RegisterAll(r.handlers, Tail(regs))

\* events.RegisterDefaultHandlers
RegisterDefaultHandlers(handlers, expo) ==
    RegisterAll(handlers, DefaultRegistrations(expo))

\* The dispatcher InitializeWorkers builds, without the Expo integration.
DefaultHandlers == RegisterDefaultHandlers(NoHandlers, FALSE).handlers

\* Event types RegisterDefaultHandlers registers a handler for.
HandlerTypes == DOMAIN DefaultHandlers

\* Dispatch's lookup d.handlers[event.EventType]: a handler is invoked.
Invokes(event) == event.event_type \in HandlerTypes

\* Dispatch reporting an event type without a handler as a permanent error.
DispatchRejectingUnknown(event, outcome) ==
    IF ~Invokes(event) THEN "permanent" ELSE outcome

\* Dispatcher.Dispatch: nil when no handler is registered, otherwise what the
\* handler returns.
Dispatch(event, outcome) ==
    IF ~Invokes(event) THEN "nil" ELSE outcome

\* processEvent giving up one attempt early.
processEventOffByOne(rs, eventRecord, err, t) ==
    IF err = "nil"
    THEN MarkProcessed(rs, eventRecord.id, t)
    ELSE LET attempts == eventRecord.attempts + 1 IN
         IF IsPermanent(err) \/ attempts + 1 >= MaxAttempts
         THEN MarkFailed(rs, eventRecord.id, attempts, err)
         ELSE MarkRetry(rs, eventRecord.id, attempts, err,
                        t + backoffForAttempt(attempts))

\* processEvent retrying once more than the cap allows.
processEventRetryingAtCap(rs, eventRecord, err, t) ==
    IF err = "nil"
    THEN MarkProcessed(rs, eventRecord.id, t)
    ELSE LET attempts == eventRecord.attempts + 1 IN
         IF IsPermanent(err) \/ attempts > MaxAttempts
         THEN MarkFailed(rs, eventRecord.id, attempts, err)
         ELSE MarkRetry(rs, eventRecord.id, attempts, err,
                        t + backoffForAttempt(attempts))

\* processEvent acknowledging the event whatever Dispatch returned.
processEventAcknowledgingErrors(rs, eventRecord, err, t) ==
    MarkProcessed(rs, eventRecord.id, t)

\* OutboxWorker.processEvent given the error err Dispatch returned: the table
\* after the Mark call, at time t.
processEvent(rs, eventRecord, err, t) ==
    IF err = "nil"
    THEN MarkProcessed(rs, eventRecord.id, t)
    ELSE LET attempts == eventRecord.attempts + 1 IN
         IF IsPermanent(err) \/ attempts >= MaxAttempts
         THEN MarkFailed(rs, eventRecord.id, attempts, err)
         ELSE MarkRetry(rs, eventRecord.id, attempts, err,
                        t + backoffForAttempt(attempts))

\* ----------------------------------------------------------------- state
VARIABLES
    now,        \* time.Now(), seconds
    rows,       \* committed outbox_events rows, id -> row
    nextId,     \* next value of the outbox_events id sequence
    messages,   \* committed messages rows (their ids)
    nextMsgId,  \* next value of the messages id sequence
    tx,         \* the open SendMessage transaction
    wk,         \* per worker: position in runCycle, claim transaction, batch
    crashes,    \* worker crashes so far
    hist,       \* per event id: what has happened to it
    pubLog,     \* Enqueue calls: <<idempotency key, result, key existed>>
    txLog,      \* finished SendMessage transactions: the message, what
                \* PublishInTx returned, how the transaction ended, the
                \* outbox ids it inserted
    bk,         \* a call of backoffForAttempt: its argument, its result and
                \* the result for the next attempt
    reg,        \* the dispatcher: its handlers map, the handler first
                \* registered for each event type, the last Register call
    lastPub,    \* the last call of Publish or PublishInTx on a store that
                \* may fail: its payload, the store's fault, the error
                \* returned and the error db.Create returned
    sf,         \* per worker: the rows a failed ClaimPending would have
                \* returned and the rows whose Mark call failed, in the
                \* current cycle and in the one before
    fifo,       \* a ClaimPending running alone: the table it reads, its
                \* limit, the time it reads and the ids it selects
    push,       \* a call of PushNotificationHandler.Handle: the decoded
                \* payload, what SendPush returns, the error returned
    calls,      \* the host's calls of Start and Stop on one worker: where
                \* each call is, loop goroutines launched, closes of stopCh
    life        \* per worker: startOnce, stopOnce, stopCh and doneCh
                \* closed, the position of the loop goroutine, a tick
                \* waiting in ticker.C, Stop has returned

\* State of the parts checked on their own.
aux == <<bk, reg, life, lastPub, sf, fifo, push, calls>>

vars == <<now, rows, nextId, messages, nextMsgId, tx, wk, crashes, hist,
          pubLog, txLog, aux>>

\* No backoff computation under way.
NoBackoff == [attempt |-> 0, delay |-> {}, succ |-> {}]

\* The dispatcher after InitializeWorkers; first and last follow the
\* Register calls made on it.
StartedReg == [handlers |-> DefaultHandlers, first |-> DefaultHandlers,
               last |-> <<>>]

\* NewOutboxWorker: both channels open, no goroutine.
NewLife == [startOnce |-> FALSE, stopOnce |-> FALSE, stopCh |-> FALSE,
            doneCh |-> FALSE, loop |-> "none", tick |-> FALSE,
            stopped |-> FALSE]

\* A worker after StartAll whose loop is between two cycles.
StartedLife == [NewLife EXCEPT !.startOnce = TRUE, !.loop = "running"]

\* No call yet.
NoPub == [call |-> "none", payload |-> "", fault |-> "nil", err |-> "nil",
          createErr |-> "none"]

\* No store error in a cycle.
NoFault == [missed |-> {}, unmarked |-> {}]
NoFaults == [w \in Workers |-> [cur |-> NoFault, prev |-> NoFault]]

\* No call yet.
NoClaim == [rows |-> <<>>, limit |-> 0, t |-> 0, sel |-> <<>>, done |-> FALSE]

\* No call yet.
NoPush == [decodes |-> TRUE, tokens |-> 0, body |-> "", sendErr |-> FALSE,
           tickets |-> <<>>, err |-> "none"]

\* The calls the host makes: Start from main and once more, Stop on the
\* shutdown signal and by main's defer.
StartCallers == {"main", "again"}
StopCallers == {"signal", "defer"}

\* No call made.
NoCalls == [start |-> [c \in StartCallers |-> "idle"],
            stop |-> [c \in StopCallers |-> "idle"],
            loops |-> 0, closes |-> 0]

AuxInit ==
    /\ bk = NoBackoff
    /\ reg = StartedReg
    /\ life = [w \in Workers |-> StartedLife]
    /\ lastPub = NoPub
    /\ sf = NoFaults
    /\ fifo = NoClaim
    /\ push = NoPush
    /\ calls = NoCalls

NoRows == [i \in {} |-> {}]
IdleTx == [pc |-> "idle", msg |-> 0, rows |-> NoRows, ids |-> {}, pub |-> "none"]
IdleWorker == [pc |-> "idle", claimNow |-> 0, sel |-> <<>>, batch |-> <<>>,
               err |-> "none"]
NoHist == [dispatches |-> 0, claims |-> 0, tainted |-> FALSE, perm |-> FALSE]

\* An empty outbox_events table and workers that have not run a cycle.
MainInit ==
    /\ now = 0
    /\ rows = NoRows
    /\ nextId = 1
    /\ messages = {}
    /\ nextMsgId = 1
    /\ tx = IdleTx
    /\ wk = [w \in Workers |-> IdleWorker]
    /\ crashes = 0
    /\ hist = [i \in 1..0 |-> NoHist]
    /\ pubLog = {}
    /\ txLog = {}

Init == MainInit /\ AuxInit

\* Ids locked by an open ClaimPending transaction.
LockedBy(w) == SeqToSet(wk[w].sel)
LockedIds == UNION {LockedBy(w) : w \in Workers}

\* hist extended to the ids of rs.
HistFor(h, rs) == [i \in DOMAIN rs |-> IF i \in DOMAIN h THEN h[i] ELSE NoHist]

\* ------------------------------------------------------------ publishing

\* The user accepting invites (CoachService.AcceptInvite).
UserID == 1

\* CoachService.AcceptInvite's Publisher.Publish: a standalone Enqueue under
\* the key invite.accepted:<invite>:<user>.  An insert whose key an open
\* transaction has inserted waits for that transaction to end.
Publish(inv, payload) ==
    LET key == BuildIdempotencyKey(EventTypeInviteAccepted, <<inv, UserID>>)
        b == buildOutboxEvent(EventTypeInviteAccepted, "client_profile", inv,
                              key, payload, now)
    IN  IF b.err
        THEN UNCHANGED vars
        ELSE /\ nextId <= MaxId
             /\ \A i \in DOMAIN tx.rows : tx.rows[i].idempotency_key # key
             /\ LET res == enqueueWithDB(rows, nextId, b.event) IN
                  /\ rows' = res.rows
                  /\ hist' = HistFor(hist, res.rows)
                  /\ pubLog' = pubLog \cup
                        {<<key, res.err, \E i \in DOMAIN rows :
                                            rows[i].idempotency_key = key>>}
             /\ nextId' = nextId + 1
             /\ UNCHANGED <<aux, now, messages, nextMsgId, tx, wk, crashes, txLog>>

\* EnqueueTx inserting through the repository's own handle r.db.
EnqueueTxOnBaseHandle(rs, txRows, id, event) ==
    LET res == enqueueWithDB(rs, id, event)
    IN  [rows |-> res.rows, txRows |-> txRows, err |-> res.err]

\* OutboxRepository.EnqueueTx: enqueueWithDB on the transaction's handle.
\* The statement sees the committed rows and the transaction's own inserts;
\* what it inserts stays in the transaction until commit.
EnqueueTx(rs, txRows, id, event) ==
    LET seen == [i \in DOMAIN rs \cup DOMAIN txRows |->
                    IF i \in DOMAIN txRows THEN txRows[i] ELSE rs[i]]
        res == enqueueWithDB(seen, id, event)
    IN  [rows |-> rs,
         txRows |-> [i \in DOMAIN res.rows \ DOMAIN rs |-> res.rows[i]],
         err |-> res.err]

\* SendMessage, WithTransaction begins and CreateMessageTx inserts the message.
SendBegin ==
    /\ tx.pc = "idle"
    /\ nextMsgId <= MaxMessages
    /\ tx' = [IdleTx EXCEPT !.pc = "created", !.msg = nextMsgId]
    /\ nextMsgId' = nextMsgId + 1
    /\ UNCHANGED <<aux, now, rows, nextId, messages, wk, crashes, hist,
                   pubLog, txLog>>

\* SendMessage going on to commit whatever PublishInTx returned.
SendPublishIgnoringError(payload) ==
    /\ tx.pc = "created"
    /\ LET key == BuildIdempotencyKey(EventTypeMessageSent, <<tx.msg>>)
           b == buildOutboxEvent(EventTypeMessageSent, "message", tx.msg,
                                 key, payload, now)
       IN  IF b.err
           THEN /\ tx' = [tx EXCEPT !.pc = "published", !.pub = "error"]
                /\ UNCHANGED <<aux, rows, nextId>>
           ELSE /\ nextId <= MaxId
                /\ LET res == EnqueueTx(rows, tx.rows, nextId, b.event) IN
                     /\ rows' = res.rows
                     /\ tx' = [tx EXCEPT !.pc = "published",
                                         !.pub = res.err,
                                         !.rows = res.txRows,
                                         !.ids = @ \cup {nextId}]
                /\ nextId' = nextId + 1
    /\ hist' = HistFor(hist, rows')
    /\ UNCHANGED <<aux, now, messages, nextMsgId, wk, crashes, pubLog, txLog>>

\* SendMessage, PublishInTx under the key message.sent:<message id>; its
\* error is the error the transaction callback returns.
SendPublish(payload) ==
    /\ tx.pc = "created"
    /\ LET key == BuildIdempotencyKey(EventTypeMessageSent, <<tx.msg>>)
           b == buildOutboxEvent(EventTypeMessageSent, "message", tx.msg,
                                 key, payload, now)
       IN  IF b.err
           THEN /\ tx' = [tx EXCEPT !.pc = "failed", !.pub = "error"]
                /\ UNCHANGED <<aux, rows, nextId>>
           ELSE /\ nextId <= MaxId
                /\ LET res == EnqueueTx(rows, tx.rows, nextId, b.event) IN
                     /\ rows' = res.rows
                     /\ tx' = [tx EXCEPT
                                 !.pc = IF res.err = "nil" THEN "published"
                                        ELSE "failed",
                                 !.pub = IF res.err = "nil" THEN "nil"
                                         ELSE "error",
                                 !.rows = res.txRows,
                                 !.ids = IF DOMAIN res.rows \cup DOMAIN res.txRows
                                            = DOMAIN rows \cup DOMAIN tx.rows
                                         THEN @ ELSE @ \cup {nextId}]
                /\ nextId' = nextId + 1
    /\ hist' = HistFor(hist, rows')
    /\ UNCHANGED <<aux, now, messages, nextMsgId, wk, crashes, pubLog,
                   txLog>>

\* gorm's Transaction after the callback returned nil: COMMIT.
TxCommit ==
    /\ tx.pc = "published"
    /\ rows' = [i \in DOMAIN rows \cup DOMAIN tx.rows |->
                  IF i \in DOMAIN tx.rows THEN tx.rows[i] ELSE rows[i]]
    /\ hist' = HistFor(hist, rows')
    /\ messages' = messages \cup {tx.msg}
    /\ txLog' = txLog \cup {[msg |-> tx.msg, pub |-> tx.pub, end |-> "commit",
                              ids |-> tx.ids]}
    /\ tx' = IdleTx
    /\ UNCHANGED <<aux, now, nextId, nextMsgId, wk, crashes, pubLog>>

\* gorm's Transaction after the callback returned an error: ROLLBACK.
TxRollback ==
    /\ tx.pc = "failed"
    /\ txLog' = txLog \cup {[msg |-> tx.msg, pub |-> tx.pub,
                              end |-> "rollback", ids |-> tx.ids]}
    /\ tx' = IdleTx
    /\ UNCHANGED <<aux, now, rows, nextId, messages, nextMsgId, wk, crashes, hist, pubLog>>

\* The transaction is lost before it commits (COMMIT fails, the connection
\* drops, the request is cancelled): the database rolls it back.
TxAbort ==
    /\ tx.pc \in {"created", "published"}
    /\ txLog' = txLog \cup {[msg |-> tx.msg, pub |-> tx.pub, end |-> "abort",
                              ids |-> tx.ids]}
    /\ tx' = IdleTx
    /\ UNCHANGED <<aux, now, rows, nextId, messages, nextMsgId, wk, crashes, hist, pubLog>>

\* ---------------------------------------------------------------- worker

\* runCycle, first statement: RequeueStuckProcessing(StuckAfter).
RunCycleBegin(w) ==
    /\ wk[w].pc = "idle"
    /\ rows' = RequeueStuckProcessing(rows, StuckAfter, now)
    /\ hist' = [i \in DOMAIN hist |->
                  IF i \in Stuck(rows, StuckAfter, now)
                  THEN [hist[i] EXCEPT !.claims = 0, !.tainted = TRUE]
                  ELSE hist[i]]
    /\ wk' = [wk EXCEPT ![w].pc = "claim"]
    /\ UNCHANGED <<now, nextId, messages, nextMsgId, tx, crashes,
                   pubLog, txLog>>

\* A cycle of a started worker begins.
Requeue(w) == RunCycleBegin(w) /\ UNCHANGED aux

\* ClaimPending up to the SELECT ... FOR UPDATE SKIP LOCKED: now is read, the
\* transaction opens and the selected rows are locked.  With nothing selected
\* the transaction commits at once and runCycle returns.
ClaimSelectLimit(w, limit) ==
    /\ wk[w].pc = "claim"
    /\ LET ids == SelectForClaim(rows, now, LockedIds, limit) IN
         wk' = [wk EXCEPT ![w].pc = IF ids = <<>> THEN "idle" ELSE "commit",
                          ![w].claimNow = IF ids = <<>> THEN 0 ELSE now,
                          ![w].sel = ids]
    /\ UNCHANGED <<aux, now, rows, nextId, messages, nextMsgId, tx, crashes, hist, pubLog, txLog>>

\* runCycle's ClaimPending(ctx, w.config.BatchSize).
ClaimSelect(w) == ClaimSelectLimit(w, BatchSize)

\* The events ClaimPending returns: the selected rows as read, with Status
\* and ProcessingStarted overwritten in memory.
ClaimedEvents(rs, ids, t) ==
    [k \in 1..Len(ids) |->
        [rs[ids[k]] EXCEPT !.status = OutboxStatusProcessing,
                           !.processing_started = {t}]]

\* ClaimPending calling processEvent inside its transaction: the handler of
\* the first event starts while the UPDATE is uncommitted and the rows are
\* locked.
ClaimCommitHoldingLocks(w) ==
    /\ wk[w].pc = "commit"
    /\ wk' = [wk EXCEPT ![w].pc = "handling",
                        ![w].batch = ClaimedEvents(rows, wk[w].sel, wk[w].claimNow)]
    /\ UNCHANGED <<aux, now, rows, nextId, messages, nextMsgId, tx, crashes,
                   hist, pubLog, txLog>>

\* ClaimPending from the UPDATE to the COMMIT: the locked rows become
\* processing, the locks are released and the batch is returned; runCycle
\* calls processEvent for its first event, whose handler starts.
ClaimCommit(w) ==
    /\ wk[w].pc = "commit"
    /\ LET ids == wk[w].sel IN
         /\ rows' = ClaimUpdate(rows, SeqToSet(ids), wk[w].claimNow)
         /\ wk' = [wk EXCEPT ![w].pc = "handling",
                             ![w].claimNow = 0,
                             ![w].sel = <<>>,
                             ![w].batch = ClaimedEvents(rows, ids, wk[w].claimNow)]
         /\ hist' = [i \in DOMAIN hist |->
                       IF i \in SeqToSet(ids)
                       THEN [hist[i] EXCEPT
                               !.claims = @ + 1,
                               !.dispatches = IF i = ids[1] /\ Invokes(rows[i])
                                              THEN Min(@ + 1, MaxDispatch) ELSE @]
                       ELSE hist[i]]
    /\ UNCHANGED <<aux, now, nextId, messages, nextMsgId, tx, crashes, pubLog,
                   txLog>>

\* Dispatch returns: the handler invoked for the first event of the batch
\* returns outcome.
HandlerReturn(w, outcome) ==
    /\ wk[w].pc = "handling"
    /\ wk' = [wk EXCEPT ![w].pc = "mark",
                        ![w].err = Dispatch(Head(wk[w].batch), outcome)]
    /\ UNCHANGED <<aux, now, rows, nextId, messages, nextMsgId, tx, crashes, hist,
                   pubLog, txLog>>

\* processEvent records the outcome and runCycle moves to the next event of
\* the batch, whose handler starts.  The UPDATE waits while a ClaimPending
\* transaction holds the row's lock.
Mark(w) ==
    /\ wk[w].pc = "mark"
    /\ LET ev == Head(wk[w].batch)
           err == wk[w].err
           rest == Tail(wk[w].batch)
       IN  /\ ev.id \notin LockedIds
           /\ rows' = processEvent(rows, ev, err, now)
           /\ hist' = [i \in DOMAIN hist |->
                 LET h1 == IF i = ev.id
                           THEN [hist[i] EXCEPT
                                   !.claims = IF rows'[i].status = OutboxStatusPending
                                              THEN 0 ELSE @,
                                   !.tainted = @ \/ err # "transient",
                                   !.perm = @ \/ IsPermanent(err)]
                           ELSE hist[i]
                 IN  IF rest # <<>> /\ i = Head(rest).id /\ Invokes(Head(rest))
                     THEN [h1 EXCEPT !.dispatches = Min(@ + 1, MaxDispatch)]
                     ELSE h1]
           /\ wk' = [wk EXCEPT
                 ![w].pc = IF rest = <<>> THEN "idle" ELSE "handling",
                 ![w].batch = rest,
                 ![w].err = "none"]
    /\ UNCHANGED <<aux, now, nextId, messages, nextMsgId, tx, crashes, pubLog, txLog>>

\* The worker's process dies in the middle of a cycle and a new process
\* takes its place: an open claim transaction is rolled back, a claimed
\* batch is forgotten.
Crash(w) ==
    /\ wk[w].pc # "idle"
    /\ crashes < MaxCrashes
    /\ crashes' = crashes + 1
    /\ hist' = [i \in DOMAIN hist |->
                  IF \E k \in 1..Len(wk[w].batch) : wk[w].batch[k].id = i
                  THEN [hist[i] EXCEPT !.tainted = TRUE]
                  ELSE hist[i]]
    /\ wk' = [wk EXCEPT ![w] = IdleWorker]
    /\ UNCHANGED <<aux, now, rows, nextId, messages, nextMsgId, tx,
                   pubLog, txLog>>

\* Time passes.
Tick ==
    /\ now + ClockStep <= MaxTime
    /\ now' = now + ClockStep
    /\ UNCHANGED <<aux, rows, nextId, messages, nextMsgId, tx, wk, crashes, hist, pubLog, txLog>>

\* The outbox: events published standalone, the workers, crashes and the
\* clock.
Next ==
    \/ \E inv \in Invites, payload \in Payloads : Publish(inv, payload)
    \/ \E w \in Workers : Requeue(w)
    \/ \E w \in Workers : ClaimSelect(w)
    \/ \E w \in Workers : ClaimCommit(w)
    \/ \E w \in Workers, outcome \in Outcomes : HandlerReturn(w, outcome)
    \/ \E w \in Workers : Mark(w)
    \/ \E w \in Workers : Crash(w)
    \/ Tick

Spec == Init /\ [][Next]_vars

\* SendMessage's transaction next to standalone publishing and the workers,
\* at one instant and with no crash.
TxNext ==
    \/ \E inv \in Invites, payload \in Payloads : Publish(inv, payload)
    \/ SendBegin
    \/ \E payload \in Payloads : SendPublish(payload)
    \/ TxCommit
    \/ TxRollback
    \/ TxAbort
    \/ \E w \in Workers : Requeue(w)
    \/ \E w \in Workers : ClaimSelect(w)
    \/ \E w \in Workers : ClaimCommit(w)
    \/ \E w \in Workers, outcome \in Outcomes : HandlerReturn(w, outcome)
    \/ \E w \in Workers : Mark(w)

TxSpec == Init /\ [][TxNext]_vars

\* ------------------------------------------------- unbounded passage of time
\* Every comparison the program makes between timestamps is a comparison of
\* differences, so instead of advancing now the clock step below moves every
\* stored timestamp back by ClockStep.  Timestamps further back than Floor
\* are kept at Floor: they are past every threshold the program tests.

Floor == 0 - (StuckAfter + ClockStep)

Max(a, b) == IF a >= b THEN a ELSE b

ShiftTime(ts) == {Max(t - ClockStep, Floor) : t \in ts}

ShiftRow(r) ==
    [r EXCEPT !.available_at = Max(@ - ClockStep, Floor),
              !.processing_started = ShiftTime(@),
              !.processed_at = ShiftTime(@)]

TickShift ==
    /\ rows' = [i \in DOMAIN rows |-> ShiftRow(rows[i])]
    /\ wk' = [w \in Workers |->
                [wk[w] EXCEPT
                   !.claimNow = IF wk[w].pc = "commit"
                                THEN Max(@ - ClockStep, Floor) ELSE @,
                   !.batch = [k \in 1..Len(wk[w].batch) |-> ShiftRow(wk[w].batch[k])]]]
    /\ tx' = [tx EXCEPT !.rows = [i \in DOMAIN tx.rows |-> ShiftRow(tx.rows[i])]]
    /\ UNCHANGED <<aux, now, nextId, messages, nextMsgId, crashes, hist, pubLog, txLog>>

\* The invite whose event is followed to its end.
LiveInvites == {1}

\* One event, published standalone, and workers that keep running: no
\* worker process dies.
LiveNext ==
    \/ \E inv \in LiveInvites, payload \in Payloads : Publish(inv, payload)
    \/ \E w \in Workers : Requeue(w)
    \/ \E w \in Workers : ClaimSelect(w)
    \/ \E w \in Workers : ClaimCommit(w)
    \/ \E w \in Workers, outcome \in Outcomes : HandlerReturn(w, outcome)
    \/ \E w \in Workers : Mark(w)
    \/ TickShift

\* The worker loops keep running their cycles, handlers return, and the
\* clock advances.
Fairness ==
    /\ \A w \in Workers :
          /\ WF_vars(Requeue(w))
          /\ WF_vars(ClaimSelect(w))
          /\ WF_vars(ClaimCommit(w))
          /\ WF_vars(\E outcome \in Outcomes : HandlerReturn(w, outcome))
          /\ WF_vars(Mark(w))
    /\ WF_vars(TickShift)

LiveSpec == Init /\ [][LiveNext]_vars /\ Fairness

TypeOK ==
    /\ now \in 0..MaxTime
    /\ \A i \in DOMAIN rows :
          /\ rows[i].id = i
          /\ rows[i].status \in {OutboxStatusPending, OutboxStatusProcessing,
                                  OutboxStatusProcessed, OutboxStatusFailed}
    /\ DOMAIN hist = DOMAIN rows

\* ------------------------------------------------------------ properties

Terminal == {OutboxStatusProcessed, OutboxStatusFailed}

\* Ids a worker holds: locked by its open claim, or in its returned batch.
BatchIds(w) == {wk[w].batch[k].id : k \in 1..Len(wk[w].batch)}
HeldIds(w) == LockedBy(w) \cup BatchIds(w)

\* C1 -- Exclusive claim: overlapping ClaimPending calls lock disjoint sets
\* of rows, and no row is returned by two ClaimPending calls unless MarkRetry
\* or RequeueStuckProcessing put it back to pending in between.
ExclusiveClaim ==
    /\ \A w1, w2 \in Workers : w1 # w2 => LockedBy(w1) \cap LockedBy(w2) = {}
    /\ \A i \in DOMAIN hist : hist[i].claims <= 1

\* Two ClaimPending calls overlap, each holding rows, and an earlier call
\* has already returned a row.
ExclusiveClaimWitness ==
    /\ \E w1, w2 \in Workers : w1 # w2 /\ wk[w1].pc = "commit" /\ wk[w2].pc = "handling"
    /\ \E i \in DOMAIN hist : hist[i].claims = 1

\* C2 -- Idempotent publish: every Enqueue call, the first and every
\* duplicate, returns nil, and the table holds exactly one row per
\* idempotency key that was enqueued.
IdempotentPublish ==
    \A e \in pubLog :
        /\ e[2] = "nil"
        /\ Cardinality({i \in DOMAIN rows : rows[i].idempotency_key = e[1]}) = 1

\* A key was enqueued when a row with that key already existed.
IdempotentPublishWitness ==
    \E e \in pubLog : e[3] /\ e[2] = "nil"

\* C3 -- Atomicity on rollback: an event inserted by a transaction that did
\* not commit (still open, rolled back or aborted) is not in the table and
\* no worker has selected or been handed it.
AtomicRollback ==
    /\ \A t \in txLog : t.end # "commit" =>
          \A i \in t.ids : i \notin DOMAIN rows /\ \A w \in Workers : i \notin HeldIds(w)
    /\ \A i \in tx.ids : i \notin DOMAIN rows /\ \A w \in Workers : i \notin HeldIds(w)

\* A transaction that had inserted its event was rolled back, while a
\* worker was claiming.
AtomicRollbackWitness ==
    /\ \E t \in txLog : t.end = "abort" /\ t.ids # {}
    /\ \E w \in Workers : wk[w].pc = "claim"

\* The row of message m's event.
MessageEventRows(m) ==
    {i \in DOMAIN rows :
        rows[i].idempotency_key = BuildIdempotencyKey(EventTypeMessageSent, <<m>>)}

TerminalIsFinal ==
    [][\A i \in DOMAIN rows :
          rows[i].status \in Terminal => rows'[i].status = rows[i].status]_vars

\* The step is worker w's Mark call for event ev.
MarkStep(w) ==
    /\ wk[w].pc = "mark"
    /\ wk'[w].pc # "mark"
    /\ crashes' = crashes

\* C6 -- Outcome of a transient failure: for a claimed row with attempts a
\* the worker records attempts a+1 and the row becomes pending with
\* available_at = now + backoff(a+1) when a+1 < MaxAttempts, failed
\* otherwise; on success the row becomes processed, attempts unchanged.
TransientOutcome ==
    [][\A w \in Workers : MarkStep(w) =>
          LET ev == Head(wk[w].batch)
              a == ev.attempts
              old == rows[ev.id]
              new == rows'[ev.id]
          IN  /\ wk[w].err = "transient" =>
                    /\ new.attempts = a + 1
                    /\ a + 1 < MaxAttempts =>
                          /\ new.status = OutboxStatusPending
                          /\ new.available_at = now + backoffForAttempt(a + 1)
                    /\ a + 1 >= MaxAttempts => new.status = OutboxStatusFailed
              /\ wk[w].err = "nil" =>
                    /\ new.status = OutboxStatusProcessed
                    /\ new.attempts = old.attempts]_vars

\* A transient failure was recorded and the row waits for its retry.
TransientOutcomeWitness ==
    \E i \in DOMAIN rows :
        /\ rows[i].status = OutboxStatusPending
        /\ rows[i].attempts = 1
        /\ rows[i].last_error = {"transient"}
        /\ rows[i].available_at > now

\* C7 -- Permanent short-circuit: a permanent error makes the row failed
\* with attempts = the claimed attempts + 1 whatever MaxAttempts is, and a
\* row failed by a permanent error is never pending or processing again.
PermanentShortCircuit ==
    /\ [][\A w \in Workers : MarkStep(w) /\ wk[w].err = "permanent" =>
             /\ rows'[Head(wk[w].batch).id].status = OutboxStatusFailed
             /\ rows'[Head(wk[w].batch).id].attempts = Head(wk[w].batch).attempts + 1]_vars
    /\ [][\A i \in DOMAIN rows :
             hist[i].perm /\ rows[i].status = OutboxStatusFailed =>
                 rows'[i].status \notin {OutboxStatusPending, OutboxStatusProcessing}]_vars

\* C8 -- Terminal failure after exhaustion: an event whose handler only
\* ever failed transiently, with no crash and no requeue, has been
\* dispatched at most MaxAttempts times; once failed it has been dispatched
\* exactly MaxAttempts times, has attempts = MaxAttempts, stays failed and
\* is held by no worker.
Untainted(i) == ~hist[i].tainted

TerminalFailure ==
    /\ [](\A i \in DOMAIN rows : Untainted(i) =>
            /\ hist[i].dispatches <= MaxAttempts
            /\ rows[i].status = OutboxStatusFailed =>
                  /\ hist[i].dispatches = MaxAttempts
                  /\ rows[i].attempts = MaxAttempts
                  /\ \A w \in Workers : i \notin HeldIds(w))
    /\ [][\A i \in DOMAIN rows :
             Untainted(i) /\ rows[i].status = OutboxStatusFailed =>
                 hist'[i] = hist[i] /\ rows'[i] = rows[i]]_vars

\* An event failed for good after MaxAttempts transient failures.
TerminalFailureWitness ==
    \E i \in DOMAIN rows :
        /\ Untainted(i)
        /\ rows[i].status = OutboxStatusFailed
        /\ hist[i].dispatches = MaxAttempts

\* The step is worker w's RequeueStuckProcessing call.
RequeueStep(w) == wk[w].pc = "idle" /\ wk'[w].pc = "claim"

\* C10 -- Crash recovery: RequeueStuckProcessing(StuckAfter) changes
\* exactly the processing rows whose processing_started is earlier than
\* now - StuckAfter: they become pending with available_at = now and
\* processing_started NULL, eligible for the next claim; every other row,
\* and every other field, is unchanged.
RequeueFrame ==
    [][\A w \in Workers : RequeueStep(w) =>
          /\ DOMAIN rows' = DOMAIN rows
          /\ \A i \in DOMAIN rows :
                IF /\ rows[i].status = OutboxStatusProcessing
                   /\ \E ps \in rows[i].processing_started : ps < now - StuckAfter
                THEN /\ rows'[i] = [rows[i] EXCEPT
                                       !.status = OutboxStatusPending,
                                       !.available_at = now,
                                       !.processing_started = NULL]
                     /\ i \in Eligible(rows', now, LockedIds)
                ELSE rows'[i] = rows[i]]_vars

\* A requeue has just returned a dispatched row to pending while another
\* row, claimed less than StuckAfter ago, stays processing.
RequeueFrameWitness ==
    /\ \E w \in Workers : wk[w].pc = "claim"
    /\ \E i \in DOMAIN rows :
          /\ rows[i].status = OutboxStatusPending
          /\ rows[i].available_at = now
          /\ rows[i].last_error = NULL
          /\ hist[i].dispatches >= 1
          /\ hist[i].claims = 0
    /\ \E j \in DOMAIN rows :
          /\ rows[j].status = OutboxStatusProcessing
          /\ \E ps \in rows[j].processing_started : ps >= now - StuckAfter

\* Row i waits for a retry after c handler invocations, none of them still
\* running.
AwaitsRetry(i, c) ==
    /\ i \in DOMAIN rows
    /\ \A w \in Workers : i \notin HeldIds(w)
    /\ rows[i].status \notin Terminal
    /\ rows[i].last_error = {"transient"}
    /\ rows[i].attempts >= 1
    /\ rows[i].attempts < MaxAttempts
    /\ hist[i].dispatches = c

\* The handler has been invoked for row i more than c times.
InvokedAgain(i, c) == i \in DOMAIN rows /\ hist[i].dispatches > c

\* A handler invocation for row i has returned nil and awaits its Mark call.
Succeeded(i) ==
    \E w \in Workers : /\ wk[w].pc = "mark"
                        /\ wk[w].err = "nil"
                        /\ Head(wk[w].batch).id = i

\* C9 -- At-least-once delivery: with workers that keep running and a clock
\* that advances, after each transient failure that leaves attempts below
\* MaxAttempts the handler is eventually invoked again for the same event,
\* and when an invocation succeeds the row reaches processed.
AtLeastOnce ==
    /\ \A i \in 1..MaxId : \A c \in 1..MaxAttempts :
          AwaitsRetry(i, c) ~> InvokedAgain(i, c)
    /\ \A i \in 1..MaxId :
          Succeeded(i) ~> (i \in DOMAIN rows /\ rows[i].status = OutboxStatusProcessed)

\* An event failed transiently once, was invoked again, and is processed.
AtLeastOnceWitness ==
    \E i \in DOMAIN rows :
        /\ rows[i].status = OutboxStatusProcessed
        /\ rows[i].attempts = 1
        /\ rows[i].last_error = NULL
        /\ hist[i].dispatches = 2
        /\ Untainted(i) = FALSE

\* ------------------------------------------------- recovery after a crash

\* One published event, worker processes that die and are replaced, and a
\* clock that never stops.
CrashNext ==
    \/ \E w \in Workers : Requeue(w)
    \/ \E w \in Workers : ClaimSelect(w)
    \/ \E w \in Workers : ClaimCommit(w)
    \/ \E w \in Workers, outcome \in Outcomes : HandlerReturn(w, outcome)
    \/ \E w \in Workers : Mark(w)
    \/ \E w \in Workers : Crash(w)
    \/ TickShift

\* The state after AcceptInvite has published the event of one invite.
PublishedMain ==
    /\ now = 0
    /\ \E inv \in LiveInvites :
          LET key == BuildIdempotencyKey(EventTypeInviteAccepted, <<inv, UserID>>)
              b == buildOutboxEvent(EventTypeInviteAccepted, "client_profile",
                                    inv, key, "struct", 0)
              res == enqueueWithDB(NoRows, 1, b.event)
          IN  /\ rows = res.rows
              /\ hist = HistFor(<<>>, res.rows)
              /\ pubLog = {<<key, res.err, FALSE>>}
    /\ nextId = 2
    /\ messages = {}
    /\ nextMsgId = 1
    /\ tx = IdleTx
    /\ wk = [w \in Workers |-> IdleWorker]
    /\ crashes = 0
    /\ txLog = {}

PublishedInit == PublishedMain /\ AuxInit

CrashSpec == PublishedInit /\ [][CrashNext]_vars /\ Fairness

\* Row i is processing and no worker holds it: the worker that claimed it
\* died before recording an outcome.
Orphaned(i) ==
    /\ i \in DOMAIN rows
    /\ rows[i].status = OutboxStatusProcessing
    /\ \A w \in Workers : i \notin HeldIds(w)

\* A handler invocation for row i is running.
Handling(i) ==
    \E w \in Workers : wk[w].pc = "handling" /\ Head(wk[w].batch).id = i

\* C11 -- No claimed event is lost: with workers that keep running cycles,
\* handlers that return and a clock that advances, a row whose worker died
\* between ClaimPending and the Mark call is eventually dispatched again,
\* and every committed event eventually is processed or failed.
NoClaimedEventLost ==
    /\ \A i \in 1..MaxId : Orphaned(i) ~> Handling(i)
    /\ \A i \in 1..MaxId :
          (i \in DOMAIN rows) ~> (i \in DOMAIN rows /\ rows[i].status \in Terminal)

\* After a crash, a row that no Mark call ever touched is in the hands of
\* the one worker that claimed it again.
NoClaimedEventLostWitness ==
    /\ crashes >= 1
    /\ \E i \in DOMAIN rows :
          /\ rows[i].status = OutboxStatusProcessing
          /\ rows[i].attempts = 0
          /\ rows[i].last_error = NULL
          /\ rows[i].processed_at = NULL
          /\ hist[i].dispatches = 2
          /\ Cardinality({w \in Workers : i \in HeldIds(w)}) = 1
          /\ Handling(i)

\* ------------------------------------------------------------ the backoff

\* Attempt numbers: negative, zero and past the point where the cap applies.
BackoffInit ==
    /\ MainInit
    /\ bk \in {[NoBackoff EXCEPT !.attempt = k] :
                 k \in (0 - MaxBackoffAttempt)..MaxBackoffAttempt}
    /\ reg = StartedReg
    /\ life = [w \in Workers |-> StartedLife]
    /\ lastPub = NoPub
    /\ sf = NoFaults
    /\ fifo = NoClaim
    /\ push = NoPush
    /\ calls = NoCalls

\* processEvent's call backoffForAttempt(attempts).
ApplyBackoff ==
    /\ bk.delay = {}
    /\ bk' = [bk EXCEPT !.delay = {backoffForAttempt(bk.attempt)}]
    /\ UNCHANGED <<now, rows, nextId, messages, nextMsgId, tx, wk, crashes,
                   hist, pubLog, txLog, reg, life, lastPub, sf, fifo, push, calls>>

\* The call for the attempt after that one.
ApplyBackoffNext ==
    /\ bk.succ = {}
    /\ bk' = [bk EXCEPT !.succ = {backoffForAttempt(bk.attempt + 1)}]
    /\ UNCHANGED <<now, rows, nextId, messages, nextMsgId, tx, wk, crashes,
                   hist, pubLog, txLog, reg, life, lastPub, sf, fifo, push, calls>>

BackoffNext == ApplyBackoff \/ ApplyBackoffNext

BackoffSpec == BackoffInit /\ [][BackoffNext]_vars

\* 15s * 2^(k-1) capped at 15min; past k = 20 the power is far above the cap.
ExpectedBackoff(k) ==
    IF k > 20 THEN MaxDelay ELSE Min(BaseDelay * 2 ^ (k - 1), MaxDelay)

\* C12 -- Backoff growth: backoffForAttempt(k) = min(15s * 2^(k-1), 15min)
\* for k >= 1 and 15s for k <= 1; it never exceeds 15 minutes and
\* backoffForAttempt(k) <= backoffForAttempt(k+1).
BackoffGrowth ==
    /\ \A dl \in bk.delay :
          /\ bk.attempt >= 1 => dl = ExpectedBackoff(bk.attempt)
          /\ bk.attempt <= 1 => dl = BaseDelay
          /\ dl <= MaxDelay
          /\ dl >= BaseDelay
    /\ \A dl \in bk.delay : \A nx \in bk.succ : dl <= nx

\* The delay was computed for the last attempt below the cap and for the
\* attempt after it, where the cap applies.
BackoffGrowthWitness ==
    /\ bk.delay = {BaseDelay * 32}
    /\ bk.succ = {MaxDelay}

\* ----------------------------------------------------- retry and its delay

\* The pending rows that are due and that no open claim has locked.
DueRows ==
    {i \in DOMAIN rows : /\ rows[i].status = OutboxStatusPending
                         /\ rows[i].available_at <= now
                         /\ i \notin LockedIds}

\* The step is worker w's SELECT of ClaimPending.
SelectStep(w) == wk[w].pc = "claim" /\ wk'[w].pc # "claim" /\ crashes' = crashes

\* C13 -- Retry is invisible until due: the first transient failure of an
\* event leaves the row pending with attempts = 1 and available_at = now +
\* 15s; no ClaimPending selects a row whose available_at is after the time
\* the call read; a ClaimPending with capacity for every eligible row
\* selects every pending row that is due and not locked; a handler success
\* after the retry makes the row processed.
RetryInvisibleUntilDue ==
    /\ [][\A w \in Workers : MarkStep(w) =>
             LET ev == Head(wk[w].batch) IN
             /\ (ev.attempts = 0 /\ wk[w].err = "transient" /\ 1 < MaxAttempts) =>
                    /\ rows'[ev.id].status = OutboxStatusPending
                    /\ rows'[ev.id].attempts = 1
                    /\ rows'[ev.id].available_at = now + BaseDelay
                    /\ rows'[ev.id].available_at > now
             /\ (ev.attempts = 1 /\ wk[w].err = "nil") =>
                    /\ rows'[ev.id].status = OutboxStatusProcessed
                    /\ rows'[ev.id].attempts = rows[ev.id].attempts]_vars
    /\ [][\A w \in Workers : SelectStep(w) =>
             /\ \A i \in LockedBy(w)' : rows[i].available_at <= now
             /\ \A i \in DOMAIN rows :
                    (/\ rows[i].status = OutboxStatusPending
                     /\ rows[i].available_at <= now
                     /\ i \notin LockedIds
                     /\ Cardinality(DueRows) <= BatchSize)
                    => i \in LockedBy(w)']_vars
    /\ [](\A w \in Workers : \A k \in 1..Len(wk[w].batch) :
             wk[w].batch[k].available_at <= now)

\* An event failed once, waited for its retry, was claimed when due and
\* succeeded.
RetryInvisibleUntilDueWitness ==
    /\ crashes = 0
    /\ \E i \in DOMAIN rows :
          /\ rows[i].status = OutboxStatusProcessed
          /\ rows[i].attempts = 1
          /\ hist[i].dispatches = 2
          /\ hist[i].claims = 1
          /\ \E t \in rows[i].processed_at : t >= BaseDelay

\* ------------------------------------------------------ claim completeness

\* The pending rows that are due, locked or not.
DueRowsAll ==
    {i \in DOMAIN rows : /\ rows[i].status = OutboxStatusPending
                         /\ rows[i].available_at <= now}

\* The ClaimPending calls that are between their SELECT and their COMMIT.
OpenClaims == {w \in Workers : wk[w].pc = "commit"}

\* The step is worker w's COMMIT of ClaimPending, which returns the batch.
CommitStep(w) == wk[w].pc = "commit" /\ wk'[w].pc = "handling"

\* C14 -- Claim completeness: a ClaimPending(limit) selects min(limit, number
\* of due pending rows no other call has locked) rows, which for a call
\* running alone are all due pending rows; when the calls it overlaps have
\* taken all they could of the rows due now, the union of the selections has
\* min(number of due pending rows, sum of the limits) rows; and every call
\* returns exactly the rows it selected.
ClaimCompleteness ==
    /\ [][\A w \in Workers : SelectStep(w) =>
             LET mine == LockedBy(w)' IN
             /\ Cardinality(mine) = Min(BatchSize, Cardinality(DueRows))
             /\ OpenClaims = {} =>
                    Cardinality(mine) = Min(BatchSize, Cardinality(DueRowsAll))
             /\ (\A o \in OpenClaims :
                     Cardinality(LockedBy(o)) = Min(BatchSize, Cardinality(DueRowsAll)))
                 => Cardinality(mine \cup LockedIds) =
                       Min(Cardinality(DueRowsAll),
                           BatchSize * (Cardinality(OpenClaims) + 1))]_vars
    /\ [][\A w \in Workers : CommitStep(w) =>
             /\ BatchIds(w)' = LockedBy(w)
             /\ Len(wk'[w].batch) = Cardinality(LockedBy(w))]_vars

\* Two ClaimPending calls overlap and have selected different rows.
ClaimCompletenessWitness ==
    \E w1, w2 \in Workers :
        /\ w1 # w2
        /\ wk[w1].pc = "commit"
        /\ wk[w2].pc = "commit"
        /\ LockedBy(w1) # {}
        /\ LockedBy(w2) # {}

\* ------------------------------------------------------------- ownership

\* Worker w holds row i from the ClaimPending call that wrote the row's
\* current processing_started.
Owner(w, i) ==
    \E k \in 1..Len(wk[w].batch) :
        /\ wk[w].batch[k].id = i
        /\ wk[w].batch[k].processing_started = rows[i].processing_started

\* Less than the stuck threshold has passed since row i was claimed.
WithinThreshold(i) ==
    /\ rows[i].status = OutboxStatusProcessing
    /\ \E ps \in rows[i].processing_started : now - ps < StuckAfter

\* C15 -- Time-bounded exclusive ownership: while a row is processing and
\* less than StuckAfter has passed since its processing_started, no open
\* claim of another worker has selected it, the only worker running a
\* handler for it is the one whose ClaimPending wrote that
\* processing_started, and the batch of one cycle holds no event twice.
ExclusiveOwnership ==
    /\ \A i \in DOMAIN rows : WithinThreshold(i) =>
          /\ \A w \in Workers : i \notin LockedBy(w)
          /\ \A w \in Workers :
                (wk[w].pc = "handling" /\ Head(wk[w].batch).id = i) => Owner(w, i)
    /\ \A w \in Workers : \A k1, k2 \in 1..Len(wk[w].batch) :
          wk[w].batch[k1].id = wk[w].batch[k2].id => k1 = k2

\* --------------------------------------------------------- registration

\* Handlers offered to Register.
HandlerNames == {"h1", "h2"}

\* A dispatcher fresh from NewDispatcher.
RegisterInit ==
    /\ MainInit
    /\ bk = NoBackoff
    /\ reg = [handlers |-> NoHandlers, first |-> NoHandlers, last |-> <<>>]
    /\ life = [w \in Workers |-> StartedLife]
    /\ lastPub = NoPub
    /\ sf = NoFaults
    /\ fifo = NoClaim
    /\ push = NoPush
    /\ calls = NoCalls

\* The handler first registered for each event type, after one more call.
FirstAfter(first, eventType, handler) ==
    [t \in DOMAIN first \cup {eventType} |->
        IF t \in DOMAIN first THEN first[t] ELSE handler]

\* A call of Dispatcher.Register.
RegisterCall(eventType, handler) ==
    /\ LET r == Register(reg.handlers, eventType, handler) IN
         reg' = [handlers |-> r.handlers,
                 first |-> FirstAfter(reg.first, eventType, handler),
                 last |-> <<eventType, handler, r.err>>]
    /\ UNCHANGED <<now, rows, nextId, messages, nextMsgId, tx, wk, crashes,
                   hist, pubLog, txLog, bk, life, lastPub, sf, fifo, push, calls>>

\* The first handler of each event type after the calls of regs, made until
\* one of them fails.
RECURSIVE FirstAfterAll(_, _, _)
FirstAfterAll(handlers, first, regs) ==
    IF regs = <<>> THEN first
    ELSE LET r == Register(handlers, Head(regs)[1], Head(regs)[2])
             f == FirstAfter(first, Head(regs)[1], Head(regs)[2])
         IN  IF r.err # "nil" THEN f ELSE FirstAfterAll(r.handlers, f, Tail(regs))

\* A call of RegisterDefaultHandlers on the dispatcher as it is.
RegisterDefaultsCall(expo) ==
    /\ LET r == RegisterDefaultHandlers(reg.handlers, expo) IN
         reg' = [handlers |-> r.handlers,
                 first |-> FirstAfterAll(reg.handlers, reg.first,
                                         DefaultRegistrations(expo)),
                 last |-> <<"defaults", expo, r.err>>]
    /\ UNCHANGED <<now, rows, nextId, messages, nextMsgId, tx, wk, crashes,
                   hist, pubLog, txLog, bk, life, lastPub, sf, fifo, push, calls>>

RegisterNext ==
    \/ \E eventType \in EventTypes, handler \in HandlerNames :
          RegisterCall(eventType, handler)
    \/ \E expo \in BOOLEAN : RegisterDefaultsCall(expo)

RegisterSpec == RegisterInit /\ [][RegisterNext]_vars

\* The step is a Register call for eventType.
RegisterStep(eventType) ==
    /\ reg' # reg
    /\ Len(reg'.last) = 3
    /\ reg'.last[1] = eventType

\* C16 -- Duplicate registration is rejected: a Register call for an event
\* type that has a handler returns an error and changes no handler, a call
\* for an event type without one returns nil and stores the handler, and
\* every event type with a handler has the handler first registered for it.
DuplicateRegistrationRejected ==
    /\ [][\A eventType \in EventTypes : RegisterStep(eventType) =>
             IF eventType \in DOMAIN reg.handlers
             THEN reg'.last[3] # "nil" /\ reg'.handlers = reg.handlers
             ELSE /\ reg'.last[3] = "nil"
                  /\ reg'.handlers[eventType] = reg'.last[2]
                  /\ \A t \in DOMAIN reg.handlers :
                        reg'.handlers[t] = reg.handlers[t]]_vars
    /\ [](/\ DOMAIN reg.handlers = DOMAIN reg.first
          /\ \A t \in DOMAIN reg.handlers : reg.handlers[t] = reg.first[t])

\* A second handler was offered for an event type and rejected.
DuplicateRegistrationRejectedWitness ==
    /\ Len(reg.last) = 3
    /\ reg.last[1] \in EventTypes
    /\ reg.last[3] # "nil"
    /\ reg.handlers[reg.last[1]] # reg.last[2]

\* ------------------------------------------------- unknown event types

\* Event types handed to Publisher.Publish: one without a handler in the
\* default dispatcher and one with.
PublishedTypes == {EventTypeNotificationPush, EventTypeMessageSent}

\* Publisher.Publish called with eventType for aggregate 1, under the key
\* <eventType>:1.
PublishType(eventType) ==
    LET key == BuildIdempotencyKey(eventType, <<1>>)
        b == buildOutboxEvent(eventType, "aggregate", 1, key, "struct", now)
        res == enqueueWithDB(rows, nextId, b.event)
    IN  /\ nextId <= MaxId
        /\ rows' = res.rows
        /\ hist' = HistFor(hist, res.rows)
        /\ pubLog' = pubLog \cup
              {<<key, res.err, \E i \in DOMAIN rows :
                                  rows[i].idempotency_key = key>>}
        /\ nextId' = nextId + 1
        /\ UNCHANGED <<aux, now, messages, nextMsgId, tx, wk, crashes, txLog>>

\* Events of both kinds published and worked on as time passes.
UnknownNext ==
    \/ \E eventType \in PublishedTypes : PublishType(eventType)
    \/ \E w \in Workers : Requeue(w)
    \/ \E w \in Workers : ClaimSelect(w)
    \/ \E w \in Workers : ClaimCommit(w)
    \/ \E w \in Workers, outcome \in Outcomes : HandlerReturn(w, outcome)
    \/ \E w \in Workers : Mark(w)
    \/ Tick

UnknownSpec == Init /\ [][UnknownNext]_vars

\* The rows whose event type has no handler.
UnknownRows == {i \in DOMAIN rows : ~Invokes(rows[i])}

\* C17 -- An unknown event type is acknowledged: for an event whose type
\* has no handler Dispatch invokes no handler and returns nil, and the
\* worker's Mark call makes the row processed with attempts and last_error
\* as they were.
UnknownTypeAcknowledged ==
    /\ [][\A w \in Workers :
            (MarkStep(w) /\ ~Invokes(Head(wk[w].batch))) =>
               LET i == Head(wk[w].batch).id IN
                 /\ wk[w].err = "nil"
                 /\ rows'[i].status = OutboxStatusProcessed
                 /\ rows'[i].processed_at = {now}
                 /\ rows'[i].attempts = rows[i].attempts
                 /\ rows'[i].attempts = Head(wk[w].batch).attempts
                 /\ rows'[i].last_error = rows[i].last_error
                 /\ hist'[i].dispatches = hist[i].dispatches]_vars
    /\ [](\A i \in UnknownRows :
            /\ hist[i].dispatches = 0
            /\ rows[i].attempts = 0
            /\ rows[i].status # OutboxStatusFailed)

\* A notification.push event, for which no handler is registered, was
\* claimed and marked processed with no attempt counted.
UnknownTypeAcknowledgedWitness ==
    \E i \in UnknownRows :
        /\ rows[i].event_type = EventTypeNotificationPush
        /\ rows[i].status = OutboxStatusProcessed
        /\ rows[i].attempts = 0
        /\ hist[i].claims >= 1
        /\ hist[i].dispatches = 0

\* ------------------------------------------------------ worker lifecycle

\* Everything but the workers' lifecycles and positions in their cycles.
LifeFrame == <<now, rows, nextId, messages, nextMsgId, tx, wk, crashes, hist,
               pubLog, txLog, bk, reg, lastPub, sf, fifo, push, calls>>

\* Workers fresh from NewOutboxWorker and one published event.
LifeInit ==
    /\ PublishedMain
    /\ bk = NoBackoff
    /\ reg = StartedReg
    /\ life = [w \in Workers |-> NewLife]
    /\ lastPub = NoPub
    /\ sf = NoFaults
    /\ fifo = NoClaim
    /\ push = NoPush
    /\ calls = NoCalls

\* Start: the first call starts the loop goroutine, later calls do nothing.
Start(w) ==
    IF life[w].startOnce THEN UNCHANGED vars
    ELSE /\ life' = [life EXCEPT ![w].startOnce = TRUE, ![w].loop = "spawned"]
         /\ UNCHANGED LifeFrame

\* Stop, up to the receive from doneCh: the first call closes stopCh, later
\* calls do nothing.
StopCall(w) ==
    IF life[w].stopOnce THEN UNCHANGED vars
    ELSE /\ life' = [life EXCEPT ![w].stopOnce = TRUE, ![w].stopCh = TRUE]
         /\ UNCHANGED LifeFrame

\* Stop returning without the receive from doneCh.
StopReturnWithoutWaiting(w) ==
    /\ life[w].stopOnce
    /\ ~life[w].stopped
    /\ life' = [life EXCEPT ![w].stopped = TRUE]
    /\ UNCHANGED LifeFrame

\* Stop returns: the receive from doneCh succeeds once doneCh is closed.
StopReturn(w) ==
    /\ life[w].stopOnce
    /\ ~life[w].stopped
    /\ life[w].doneCh
    /\ life' = [life EXCEPT ![w].stopped = TRUE]
    /\ UNCHANGED LifeFrame

\* loop whose first cycle waits for a tick.
LoopFirstCycleOnTick(w) ==
    /\ life[w].loop = "spawned"
    /\ life[w].tick
    /\ RunCycleBegin(w)
    /\ life' = [life EXCEPT ![w].loop = "running", ![w].tick = FALSE]
    /\ UNCHANGED <<bk, reg, lastPub, sf, fifo, push, calls>>

\* loop, up to its first statement inside runCycle: the ticker is created
\* and the first cycle begins.
LoopFirstCycle(w) ==
    /\ life[w].loop = "spawned"
    /\ RunCycleBegin(w)
    /\ life' = [life EXCEPT ![w].loop = "running"]
    /\ UNCHANGED <<bk, reg, lastPub, sf, fifo, push, calls>>

\* The ticker's period passes: a tick is put into ticker.C, whose buffer
\* holds one, and dropped when the buffer is full.
TickerFire(w) ==
    /\ life[w].loop = "running"
    /\ ~life[w].tick
    /\ life' = [life EXCEPT ![w].tick = TRUE]
    /\ UNCHANGED LifeFrame

\* select takes the tick: the next cycle begins.
LoopTickCycle(w) ==
    /\ life[w].loop = "running"
    /\ life[w].tick
    /\ RunCycleBegin(w)
    /\ life' = [life EXCEPT ![w].tick = FALSE]
    /\ UNCHANGED <<bk, reg, lastPub, sf, fifo, push, calls>>

\* select takes the closed stopCh: loop returns, its deferred calls stop
\* the ticker and close doneCh.
LoopExit(w) ==
    /\ life[w].loop = "running"
    /\ wk[w].pc = "idle"
    /\ life[w].stopCh
    /\ life' = [life EXCEPT ![w].loop = "exited", ![w].doneCh = TRUE,
                            ![w].tick = FALSE]
    /\ UNCHANGED LifeFrame

LifeNext ==
    \/ \E w \in Workers : Start(w)
    \/ \E w \in Workers : StopCall(w)
    \/ \E w \in Workers : StopReturn(w)
    \/ \E w \in Workers : LoopFirstCycle(w)
    \/ \E w \in Workers : TickerFire(w)
    \/ \E w \in Workers : LoopTickCycle(w)
    \/ \E w \in Workers : LoopExit(w)
    \/ \E w \in Workers : ClaimSelect(w)
    \/ \E w \in Workers : ClaimCommit(w)
    \/ \E w \in Workers, outcome \in Outcomes : HandlerReturn(w, outcome)
    \/ \E w \in Workers : Mark(w)
    \/ Tick

LifeSpec == LifeInit /\ [][LifeNext]_vars

\* The loop goroutines are scheduled and handlers return.
LifeFairness ==
    \A w \in Workers :
       /\ WF_vars(LoopFirstCycle(w))
       /\ WF_vars(LoopTickCycle(w) \/ LoopExit(w))
       /\ WF_vars(ClaimSelect(w))
       /\ WF_vars(ClaimCommit(w))
       /\ WF_vars(\E outcome \in Outcomes : HandlerReturn(w, outcome))
       /\ WF_vars(Mark(w))

LifeLiveSpec == LifeSpec /\ LifeFairness

\* Worker w is inside runCycle.
InCycle(w) == wk[w].pc # "idle"

\* C18 -- Cooperative stop: Stop returns only after the loop has exited;
\* from then on the worker is in no cycle, holds no claimed event whose
\* Mark call it has not issued, no row is left processing by it, and it
\* makes no further step of a cycle.  A claimed event leaves the worker's
\* batch only with its Mark call.
CooperativeStop ==
    /\ [](\A w \in Workers : life[w].stopped =>
            /\ life[w].loop = "exited"
            /\ life[w].doneCh
            /\ ~InCycle(w)
            /\ HeldIds(w) = {}
            /\ \A i \in DOMAIN rows :
                  rows[i].status = OutboxStatusProcessing =>
                     \E w2 \in Workers \ {w} : i \in BatchIds(w2))
    /\ [][\A w \in Workers :
            /\ life[w].stopped => (wk'[w] = wk[w] /\ life'[w] = life[w])
            /\ Len(wk'[w].batch) < Len(wk[w].batch) => MarkStep(w)]_vars

\* The only started worker processed the event, and its Stop has returned.
CooperativeStopWitness ==
    \E w \in Workers :
       /\ life[w].stopped
       /\ \E i \in DOMAIN rows :
             /\ rows[i].status = OutboxStatusProcessed
             /\ \A w2 \in Workers \ {w} : ~life[w2].startOnce

\* The step begins a cycle of worker w.
CycleBeginStep(w) == ~InCycle(w) /\ InCycle(w)'

\* C19 -- Worker lifecycle: the first cycle begins after Start without a
\* tick, every later cycle takes one tick, a cycle begins only when the
\* previous one has ended, and until Stop is called a started loop runs
\* its first cycle and a cycle for every tick waiting.
WorkerLifecycle ==
    /\ [][\A w \in Workers : CycleBeginStep(w) =>
            /\ life[w].startOnce
            /\ IF life[w].loop = "spawned"
               THEN life'[w].loop = "running" /\ life'[w].tick = life[w].tick
               ELSE /\ life[w].loop = "running"
                    /\ life[w].tick /\ ~life'[w].tick]_vars
    /\ [](\A w \in Workers : InCycle(w) => life[w].loop = "running")
    /\ \A w \in Workers :
          /\ (life[w].loop = "spawned") ~> (life[w].loop = "running")
          /\ (life[w].loop = "running" /\ life[w].tick)
                ~> (~life[w].tick \/ life[w].stopCh)

\* A worker has run its first cycle, which processed the event, and is in
\* a later cycle begun by a tick, Stop not called.
WorkerLifecycleWitness ==
    \E w \in Workers :
       /\ ~life[w].stopOnce
       /\ InCycle(w)
       /\ ~life[w].tick
       /\ \E i \in DOMAIN rows : rows[i].status = OutboxStatusProcessed
       /\ \A w2 \in Workers \ {w} : ~life[w2].startOnce

\* ------------------------------------------------- publishing that fails

\* AcceptInvite's Publish on a store that may fail.
PublishOn(inv, payload, fault) ==
    LET key == BuildIdempotencyKey(EventTypeInviteAccepted, <<inv, UserID>>)
        res == PublisherPublish(rows, nextId, EventTypeInviteAccepted,
                                "client_profile", inv, key, payload, now, fault)
    IN  /\ nextId <= MaxId
        /\ \A i \in DOMAIN tx.rows : tx.rows[i].idempotency_key # key
        /\ rows' = res.rows
        /\ hist' = HistFor(hist, res.rows)
        /\ nextId' = IF res.createErr \in {"nil", UniqueViolationMsg}
                      THEN nextId + 1 ELSE nextId
        /\ lastPub' = [call |-> "Publish", payload |-> payload,
                        fault |-> fault, err |-> res.err,
                        createErr |-> res.createErr]
        /\ UNCHANGED <<now, messages, nextMsgId, tx, wk, crashes, pubLog,
                       txLog, bk, reg, life, sf, fifo, push, calls>>

\* SendMessage's PublishInTx on a store that may fail; its error is the
\* error the transaction callback returns.
SendPublishOn(payload, fault) ==
    LET key == BuildIdempotencyKey(EventTypeMessageSent, <<tx.msg>>)
        res == PublisherPublishInTx(rows, tx.rows, nextId, EventTypeMessageSent,
                                    "message", tx.msg, key, payload, now, fault)
    IN  /\ tx.pc = "created"
        /\ nextId <= MaxId
        /\ rows' = res.rows
        /\ hist' = HistFor(hist, res.rows)
        /\ tx' = [tx EXCEPT
                    !.pc = IF res.err = "nil" THEN "published" ELSE "failed",
                    !.pub = IF res.err = "nil" THEN "nil" ELSE "error",
                    !.rows = res.txRows,
                    !.ids = IF DOMAIN res.txRows = DOMAIN tx.rows
                            THEN @ ELSE @ \cup {nextId}]
        /\ nextId' = IF res.createErr \in {"nil", UniqueViolationMsg}
                      THEN nextId + 1 ELSE nextId
        /\ lastPub' = [call |-> "PublishInTx", payload |-> payload,
                        fault |-> fault, err |-> res.err,
                        createErr |-> res.createErr]
        /\ UNCHANGED <<now, messages, nextMsgId, wk, crashes, pubLog, txLog,
                       bk, reg, life, sf, fifo, push, calls>>

\* Standalone and transactional publishing on a store that may fail, next
\* to the workers.
FaultNext ==
    \/ \E inv \in Invites, payload \in Payloads, fault \in Faults :
          PublishOn(inv, payload, fault)
    \/ SendBegin
    \/ \E payload \in Payloads, fault \in Faults : SendPublishOn(payload, fault)
    \/ TxCommit
    \/ TxRollback
    \/ TxAbort
    \/ \E w \in Workers : Requeue(w)
    \/ \E w \in Workers : ClaimSelect(w)
    \/ \E w \in Workers : ClaimCommit(w)
    \/ \E w \in Workers, outcome \in Outcomes : HandlerReturn(w, outcome)
    \/ \E w \in Workers : Mark(w)

FaultSpec == Init /\ [][FaultNext]_vars

\* The step is a call of Publish or PublishInTx.
PublishStep == lastPub' # lastPub

\* The event rows, committed or inserted by the open transaction.
EventRows == <<rows, tx.rows>>

\* C20 -- A failed publish writes nothing: Publish and PublishInTx return
\* an error exactly when the payload cannot be serialised or db.Create
\* returned an error that is not a unique violation; a call that returns
\* an error leaves the event rows as they were, and a call whose payload
\* cannot be serialised does not reach db.Create.
FailedPublishWritesNothing ==
    [][PublishStep =>
         LET c == lastPub' IN
           /\ c.err # "nil" => EventRows' = EventRows
           /\ c.err # "nil" <=>
                 \/ Marshal(c.payload).err
                 \/ (c.createErr \notin {"nil", "none"}
                        /\ ~isUniqueViolation(c.createErr))
           /\ Marshal(c.payload).err => c.createErr = "none"
           /\ c.createErr \notin {"nil", "none", UniqueViolationMsg} =>
                 c.createErr = c.fault]_vars

\* PublishInTx returned the store's error after an earlier Publish had
\* written an event.
FailedPublishWritesNothingWitness ==
    /\ lastPub.call = "PublishInTx"
    /\ lastPub.err = "connection refused"
    /\ lastPub.createErr = "connection refused"
    /\ tx.pc = "failed"
    /\ tx.rows = NoRows
    /\ rows # NoRows

\* -------------------------------------------------------------- attempts

\* C21 -- attempts increases only on retryable failure: a step changes a
\* row's attempts only when it is the Mark call that records a transient
\* handler failure for that row; publishing, ClaimPending, MarkProcessed,
\* RequeueStuckProcessing and permanent failures leave attempts as it was.
AttemptsOnlyOnRetryable ==
    [][\A i \in DOMAIN rows :
          rows'[i].attempts # rows[i].attempts =>
             \E w \in Workers :
                /\ MarkStep(w)
                /\ Head(wk[w].batch).id = i
                /\ wk[w].err = "transient"]_vars

\* ------------------------------------------- handler before terminal status

\* The step makes row i processed or failed, or rewrites a terminal row.
BecomesTerminal(i) ==
    /\ rows'[i].status \in Terminal
    /\ rows'[i] # rows[i]

\* The step is worker w's Mark call for row i.
MarkStepFor(w, i) == MarkStep(w) /\ Head(wk[w].batch).id = i

\* C22 -- The handler runs at least once before a terminal status: a row
\* whose event type has a handler becomes processed or failed only by the
\* Mark call of a worker whose Dispatch invoked the handler for it, and
\* becomes processed only when that invocation returned nil; a worker has an
\* error to record only from the return of the handler it invoked.
HandlerBeforeTerminal ==
    /\ [][\A i \in DOMAIN rows : (BecomesTerminal(i) /\ Invokes(rows[i])) =>
             \E w \in Workers :
                /\ MarkStepFor(w, i)
                /\ hist[i].dispatches >= 1
                /\ rows'[i].status = OutboxStatusProcessed => wk[w].err = "nil"
                /\ rows'[i].status = OutboxStatusFailed => wk[w].err # "nil"]_vars
    /\ [][\A w \in Workers :
             (wk'[w].err # wk[w].err /\ wk'[w].err # "none") =>
                /\ wk[w].pc = "handling"
                /\ wk'[w].batch = wk[w].batch
                /\ Invokes(Head(wk[w].batch)) =>
                      hist[Head(wk[w].batch).id].dispatches >= 1]_vars
    /\ [](\A i \in DOMAIN rows :
             (rows[i].status \in Terminal /\ Invokes(rows[i])) =>
                hist[i].dispatches >= 1)

\* A message.sent event was processed by the second invocation of its
\* handler, the first having failed.
HandlerBeforeTerminalWitness ==
    \E i \in DOMAIN rows :
       /\ rows[i].event_type = EventTypeMessageSent
       /\ rows[i].status = OutboxStatusProcessed
       /\ rows[i].attempts = 1
       /\ hist[i].dispatches = 2

\* ------------------------------------------- store errors in the worker

\* runCycle begins; the store errors of the cycle before are kept.
CycleBegin(w) ==
    /\ RunCycleBegin(w)
    /\ sf' = [sf EXCEPT ![w] = [cur |-> NoFault, prev |-> sf[w].cur]]
    /\ UNCHANGED <<bk, reg, life, lastPub, fifo, push, calls>>

\* runCycle begins with a RequeueStuckProcessing that returns an error: the
\* error is logged and the cycle goes on to ClaimPending.
RequeueFail(w) ==
    /\ wk[w].pc = "idle"
    /\ wk' = [wk EXCEPT ![w].pc = "claim"]
    /\ sf' = [sf EXCEPT ![w] = [cur |-> NoFault, prev |-> sf[w].cur]]
    /\ UNCHANGED <<now, rows, nextId, messages, nextMsgId, tx, crashes, hist,
                   pubLog, txLog, bk, reg, life, lastPub, fifo, push, calls>>

\* ClaimPending returns an error, before its SELECT or between the SELECT
\* and the COMMIT: the transaction is rolled back, the error is logged and
\* runCycle returns.
ClaimFailLimit(w, limit) ==
    /\ wk[w].pc \in {"claim", "commit"}
    /\ sf' = [sf EXCEPT ![w].cur.missed =
                 SeqToSet(IF wk[w].pc = "claim"
                          THEN SelectForClaim(rows, now, LockedIds, limit)
                          ELSE wk[w].sel)]
    /\ wk' = [wk EXCEPT ![w] = IdleWorker]
    /\ UNCHANGED <<now, rows, nextId, messages, nextMsgId, tx, crashes, hist,
                   pubLog, txLog, bk, reg, life, lastPub, fifo, push, calls>>

ClaimFail(w) == ClaimFailLimit(w, BatchSize)

\* runCycle returning at the first Mark call that fails: the rest of the
\* batch is dropped.
MarkFailAbandoningBatch(w) ==
    /\ wk[w].pc = "mark"
    /\ sf' = [sf EXCEPT ![w].cur.unmarked =
                 @ \cup {wk[w].batch[k].id : k \in 1..Len(wk[w].batch)}]
    /\ wk' = [wk EXCEPT ![w] = IdleWorker]
    /\ UNCHANGED <<now, rows, nextId, messages, nextMsgId, tx, crashes, hist,
                   pubLog, txLog, bk, reg, life, lastPub, fifo, push, calls>>

\* The Mark call of processEvent returns an error: nothing is written, the
\* error is logged and runCycle moves to the next event of the batch.
MarkFail(w) ==
    /\ wk[w].pc = "mark"
    /\ LET ev == Head(wk[w].batch)
           rest == Tail(wk[w].batch)
       IN  /\ sf' = [sf EXCEPT ![w].cur.unmarked = @ \cup {ev.id}]
           /\ hist' = [i \in DOMAIN hist |->
                 IF rest # <<>> /\ i = Head(rest).id /\ Invokes(Head(rest))
                 THEN [hist[i] EXCEPT !.dispatches = Min(@ + 1, MaxDispatch)]
                 ELSE hist[i]]
           /\ wk' = [wk EXCEPT
                 ![w].pc = IF rest = <<>> THEN "idle" ELSE "handling",
                 ![w].batch = rest,
                 ![w].err = "none"]
    /\ UNCHANGED <<now, rows, nextId, messages, nextMsgId, tx, crashes,
                   pubLog, txLog, bk, reg, life, lastPub, fifo, push, calls>>

\* The workers on a store whose calls may fail, as time passes.
StoreErrorNext ==
    \/ \E w \in Workers : CycleBegin(w)
    \/ \E w \in Workers : RequeueFail(w)
    \/ \E w \in Workers : ClaimSelect(w)
    \/ \E w \in Workers : ClaimFail(w)
    \/ \E w \in Workers : ClaimCommit(w)
    \/ \E w \in Workers, outcome \in Outcomes : HandlerReturn(w, outcome)
    \/ \E w \in Workers : Mark(w)
    \/ \E w \in Workers : MarkFail(w)
    \/ Tick

StoreErrorSpec == PublishedInit /\ [][StoreErrorNext]_vars

\* The step is the Mark call of worker w returning an error.
MarkFailStep(w) ==
    /\ wk[w].pc = "mark"
    /\ sf'[w].cur.unmarked # sf[w].cur.unmarked

\* The step is the SELECT of worker w's ClaimPending, answered by the store.
ClaimAnswered(w) == SelectStep(w) /\ sf' = sf

\* C23 -- Worker-path store errors are retried on the next cycle: a failed
\* Mark call leaves the rest of the batch to be handled and the worker goes
\* on to its next cycle; the ClaimPending of the cycle after a failed claim
\* returns the rows the failed claim would have returned, when they are
\* still due; the ClaimPending of the cycle after a failed Mark call returns
\* the event whose outcome was not recorded.
StoreErrorsRetriedNextCycle ==
    /\ [][\A w \in Workers : MarkFailStep(w) =>
             /\ wk'[w].batch = Tail(wk[w].batch)
             /\ wk'[w].pc = IF Tail(wk[w].batch) = <<>> THEN "idle"
                            ELSE "handling"]_vars
    /\ [][\A w \in Workers : ClaimAnswered(w) =>
             /\ (sf[w].prev.missed \cap DueRows) \subseteq SeqToSet(wk'[w].sel)
             /\ sf[w].prev.unmarked \subseteq SeqToSet(wk'[w].sel)]_vars

\* ---------------------------------------------------------------- fan-out

\* C24 -- Message events fan out to push notifications through the outbox:
\* for every message.sent event the worker has processed there is a
\* notification.push event in the outbox for the same message.
MessageFanOut ==
    \A i \in DOMAIN rows :
       (rows[i].event_type = EventTypeMessageSent
          /\ rows[i].status = OutboxStatusProcessed) =>
          \E j \in DOMAIN rows :
             /\ rows[j].event_type = EventTypeNotificationPush
             /\ rows[j].aggregate_id = rows[i].aggregate_id

\* ------------------------------------------------------ effect of a claim

\* C25 -- Claim eligibility and effect: the rows a ClaimPending selects are
\* pending with available_at <= the time it read, and stay so until its
\* commit; the commit sets exactly these rows to processing with
\* processing_started = that time and changes none of their other fields;
\* the batch returned holds these rows as written, and every other row is
\* unchanged.
ClaimEffect ==
    /\ [][\A w \in Workers : SelectStep(w) =>
             \A i \in SeqToSet(wk'[w].sel) :
                /\ rows[i].status = OutboxStatusPending
                /\ rows[i].available_at <= wk'[w].claimNow
                /\ wk'[w].claimNow = now
                /\ rows' = rows]_vars
    /\ [][\A w \in Workers : CommitStep(w) =>
             LET ids == SeqToSet(wk[w].sel)
                 t == wk[w].claimNow
             IN  /\ \A i \in ids :
                       /\ rows[i].status = OutboxStatusPending
                       /\ rows[i].available_at <= t
                       /\ rows'[i] = [rows[i] EXCEPT
                                        !.status = OutboxStatusProcessing,
                                        !.processing_started = {t}]
                 /\ \A i \in DOMAIN rows \ ids : rows'[i] = rows[i]
                 /\ DOMAIN rows' = DOMAIN rows
                 /\ Len(wk'[w].batch) = Len(wk[w].sel)
                 /\ \A k \in 1..Len(wk[w].sel) :
                       wk'[w].batch[k] = rows'[wk[w].sel[k]]]_vars

\* A row that has failed once is claimed again at a later time while the
\* other row stays as it is.
ClaimEffectWitness ==
    \E w \in Workers :
       /\ wk[w].pc = "handling"
       /\ LET ev == Head(wk[w].batch) IN
            /\ ev.attempts = 1
            /\ rows[ev.id].status = OutboxStatusProcessing
            /\ rows[ev.id].processing_started = {now}
            /\ now > 0
            /\ \E j \in DOMAIN rows \ {ev.id} :
                  rows[j].status = OutboxStatusPending

\* ------------------------------------------------------------ claim order

\* The columns of a row the SELECT of ClaimPending reads.
ClaimColumns ==
    [status : {OutboxStatusPending, OutboxStatusProcessing},
     available_at : 0..MaxAvail]

\* A table of MaxRows rows, a limit (0 for the default) and a time.
FifoInit ==
    /\ MainInit
    /\ bk = NoBackoff
    /\ reg = StartedReg
    /\ life = [w \in Workers |-> StartedLife]
    /\ lastPub = NoPub
    /\ sf = NoFaults
    /\ push = NoPush
    /\ calls = NoCalls
    /\ fifo \in [rows : [1..MaxRows -> ClaimColumns], limit : 0..MaxRows,
                 t : 0..MaxAvail, sel : {<<>>}, done : {FALSE}]

\* ClaimPending(limit) with no other claim open: its SELECT.
ClaimAlone ==
    /\ ~fifo.done
    /\ fifo' = [fifo EXCEPT
                  !.sel = SelectForClaim(fifo.rows, fifo.t, {}, fifo.limit),
                  !.done = TRUE]
    /\ UNCHANGED <<now, rows, nextId, messages, nextMsgId, tx, wk, crashes,
                   hist, pubLog, txLog, bk, reg, life, lastPub, sf, push, calls>>

FifoNext == ClaimAlone

FifoSpec == FifoInit /\ [][FifoNext]_vars

\* Row a precedes row b in the order (available_at, id) of the table read.
Precedes(a, b) ==
    \/ fifo.rows[a].available_at < fifo.rows[b].available_at
    \/ /\ fifo.rows[a].available_at = fifo.rows[b].available_at
       /\ a < b

\* The rows of the table read that are pending and due.
FifoEligible ==
    {i \in DOMAIN fifo.rows : /\ fifo.rows[i].status = OutboxStatusPending
                              /\ fifo.rows[i].available_at <= fifo.t}

\* C26 -- FIFO claim order: a ClaimPending(limit) running alone returns
\* min(limit, eligible rows) eligible rows, each once, in the order
\* (available_at, id), and every eligible row it leaves follows every row it
\* returns in that order.
FifoClaimOrder ==
    fifo.done =>
       LET sel == fifo.sel
           limit == IF fifo.limit <= 0 THEN DefaultLimit ELSE fifo.limit
       IN  /\ SeqToSet(sel) \subseteq FifoEligible
           /\ Len(sel) = Min(limit, Cardinality(FifoEligible))
           /\ Cardinality(SeqToSet(sel)) = Len(sel)
           /\ \A k \in 1..(Len(sel) - 1) : Precedes(sel[k], sel[k + 1])
           /\ \A i \in FifoEligible \ SeqToSet(sel) :
                 \A j \in SeqToSet(sel) : Precedes(j, i)

\* Two rows are returned, the one with the larger id first because it was
\* available earlier, and an eligible row is left.
FifoClaimOrderWitness ==
    /\ fifo.done
    /\ Len(fifo.sel) = 2
    /\ fifo.sel[1] > fifo.sel[2]
    /\ FifoEligible \ SeqToSet(fifo.sel) # {}

\* ------------------------------------------------ handlers after the commit

\* The step begins worker w's Dispatch of an event.
InvocationBegins(w) ==
    /\ wk'[w].pc = "handling"
    /\ wk[w].pc # "handling"
    /\ crashes' = crashes

\* C27 -- Handlers run only after the claim is committed: when a worker's
\* Dispatch of an event begins, the worker's claim transaction has ended
\* and holds no lock; the first event of a batch is dispatched with its row
\* committed as processing with the claim's processing_started, and a later
\* event of the batch was returned by that committed claim; while a worker
\* is in a handler or records its outcome it has no claim transaction open.
HandlerAfterCommit ==
    /\ [][\A w \in Workers : InvocationBegins(w) =>
             LET ev == Head(wk'[w].batch) IN
               /\ wk'[w].sel = <<>>
               /\ ev.id \notin LockedBy(w)'
               /\ ev.status = OutboxStatusProcessing
               /\ IF wk[w].pc = "commit"
                  THEN /\ rows'[ev.id] = ev
                       /\ rows[ev.id].status = OutboxStatusPending
                  ELSE /\ wk[w].pc = "mark"
                       /\ wk'[w].batch = Tail(wk[w].batch)]_vars
    /\ [](\A w \in Workers : wk[w].pc \in {"handling", "mark"} =>
             /\ wk[w].sel = <<>>
             /\ wk[w].batch # <<>>)

\* A handler runs for a committed row while the other worker's claim
\* transaction is open on another row.
HandlerAfterCommitWitness ==
    \E w \in Workers, w2 \in Workers :
       /\ wk[w].pc = "handling"
       /\ rows[Head(wk[w].batch).id] = Head(wk[w].batch)
       /\ wk[w2].pc = "commit"
       /\ LockedBy(w2) # {}

\* -------------------------------------------------------- cycle structure

\* The batch size of a worker configured to claim more than one event.
CycleBatch == BatchSize + 1

\* Events of two types published, and workers with batches of CycleBatch on
\* a store whose calls may fail.
CycleNext ==
    \/ \E eventType \in PublishedTypes : PublishType(eventType)
    \/ \E w \in Workers : CycleBegin(w)
    \/ \E w \in Workers : RequeueFail(w)
    \/ \E w \in Workers : ClaimSelectLimit(w, CycleBatch)
    \/ \E w \in Workers : ClaimFailLimit(w, CycleBatch)
    \/ \E w \in Workers : ClaimCommit(w)
    \/ \E w \in Workers, outcome \in Outcomes : HandlerReturn(w, outcome)
    \/ \E w \in Workers : Mark(w)
    \/ \E w \in Workers : MarkFail(w)

CycleSpec == Init /\ [][CycleNext]_vars

\* The step is a step of worker w's cycle.
CycleStep(w) == wk'[w] # wk[w]

\* The handler invocations counted for the rows other than those of ids
\* are unchanged.
NoDispatchBut(ids) ==
    \A i \in DOMAIN hist \ ids : hist'[i].dispatches = hist[i].dispatches

\* C28 -- Cycle structure: a cycle calls RequeueStuckProcessing first and
\* goes on to ClaimPending whether it failed or not; ClaimPending is called
\* once, and its failure or an empty batch ends the cycle with no dispatch;
\* the events of the batch are dispatched one after the other in the order
\* claimed, an event with a registered handler to that handler and once;
\* every dispatch is followed by one Mark call for that event, the one its
\* outcome calls for, and then, whatever the outcome and whether the Mark
\* call failed or not, by the dispatch of the next event.
CycleStructure ==
    [][\A w \in Workers : CycleStep(w) =>
          LET pc == wk[w].pc
              next == wk'[w].pc
          IN  /\ pc = "idle" =>
                   /\ next = "claim"
                   /\ wk'[w].batch = <<>> /\ wk'[w].sel = <<>>
                   /\ rows' \in {RequeueStuckProcessing(rows, StuckAfter, now), rows}
                   /\ NoDispatchBut({})
              /\ pc = "claim" =>
                   /\ next \in {"commit", "idle"}
                   /\ next = "commit" <=> wk'[w].sel # <<>>
                   /\ Len(wk'[w].sel) <= CycleBatch
                   /\ wk'[w].batch = <<>>
                   /\ rows' = rows
                   /\ NoDispatchBut({})
              /\ pc = "commit" =>
                   \/ /\ next = "handling"
                      /\ [k \in 1..Len(wk'[w].batch) |-> wk'[w].batch[k].id]
                            = wk[w].sel
                      /\ NoDispatchBut({wk[w].sel[1]})
                      /\ Invokes(rows[wk[w].sel[1]]) =>
                            hist'[wk[w].sel[1]].dispatches =
                               Min(hist[wk[w].sel[1]].dispatches + 1, MaxDispatch)
                   \/ /\ next = "idle"
                      /\ wk'[w].batch = <<>>
                      /\ rows' = rows
                      /\ NoDispatchBut({})
              /\ pc = "handling" =>
                   /\ next = "mark"
                   /\ wk'[w].batch = wk[w].batch
                   /\ wk'[w].err \in Outcomes
                   /\ ~Invokes(Head(wk[w].batch)) => wk'[w].err = "nil"
                   /\ rows' = rows
                   /\ NoDispatchBut({})
              /\ pc = "mark" =>
                   LET ev == Head(wk[w].batch)
                       rest == Tail(wk[w].batch)
                   IN  /\ wk'[w].batch = rest
                       /\ next = IF rest = <<>> THEN "idle" ELSE "handling"
                       /\ rows' \in {processEvent(rows, ev, wk[w].err, now), rows}
                       /\ rest = <<>> => NoDispatchBut({})
                       /\ rest # <<>> =>
                            /\ NoDispatchBut({Head(rest).id})
                            /\ Invokes(Head(rest)) =>
                                 hist'[Head(rest).id].dispatches =
                                    Min(hist[Head(rest).id].dispatches + 1,
                                        MaxDispatch)]_vars

\* The second event of a batch is dispatched to its handler after the Mark
\* call for the first has failed.
CycleStructureWitness ==
    \E w \in Workers :
       /\ wk[w].pc = "handling"
       /\ Len(wk[w].batch) = 1
       /\ sf[w].cur.unmarked # {}
       /\ Head(wk[w].batch).id \notin sf[w].cur.unmarked
       /\ Invokes(Head(wk[w].batch))

\* ----------------------------------------------------- processing_started

\* C29 -- processing_started tracks the processing status: in every
\* reachable state a row has a non-null processing_started if and only if
\* its status is processing.
ProcessingStartedTracksStatus ==
    \A i \in DOMAIN rows :
       rows[i].processing_started # NULL
          <=> rows[i].status = OutboxStatusProcessing

\* A row was claimed, requeued as stuck and is pending again while the
\* other row is processing.
ProcessingStartedTracksStatusWitness ==
    \E i \in DOMAIN rows, j \in DOMAIN rows :
       /\ rows[i].status = OutboxStatusPending
       /\ rows[i].processing_started = NULL
       /\ rows[i].available_at > 0
       /\ rows[i].attempts = 0
       /\ hist[i].dispatches >= 1
       /\ rows[j].status = OutboxStatusProcessing
       /\ rows[j].processing_started # NULL

\* ------------------------------------------------------ duplicate publish

\* A transaction that calls Publisher.PublishInTx with eventType for
\* aggregate 1, under the key <eventType>:1, and commits.
PublishTypeInTx(eventType) ==
    LET key == BuildIdempotencyKey(eventType, <<1>>)
        b == buildOutboxEvent(eventType, "aggregate", 1, key, "struct", now)
        res == EnqueueTx(rows, NoRows, nextId, b.event)
        committed == [i \in DOMAIN rows \cup DOMAIN res.txRows |->
                        IF i \in DOMAIN res.txRows THEN res.txRows[i]
                        ELSE res.rows[i]]
    IN  /\ nextId <= MaxId
        /\ tx.pc = "idle"
        /\ rows' = committed
        /\ hist' = HistFor(hist, committed)
        /\ pubLog' = pubLog \cup
              {<<key, res.err, \E i \in DOMAIN rows :
                                  rows[i].idempotency_key = key>>}
        /\ nextId' = nextId + 1
        /\ UNCHANGED <<aux, now, messages, nextMsgId, tx, wk, crashes, txLog>>

\* Events published again and again, standalone and in transactions, while
\* the workers handle them.
DuplicateNext ==
    \/ \E eventType \in PublishedTypes : PublishType(eventType)
    \/ \E eventType \in PublishedTypes : PublishTypeInTx(eventType)
    \/ \E w \in Workers : Requeue(w)
    \/ \E w \in Workers : ClaimSelect(w)
    \/ \E w \in Workers : ClaimCommit(w)
    \/ \E w \in Workers, outcome \in Outcomes : HandlerReturn(w, outcome)
    \/ \E w \in Workers : Mark(w)
    \/ Tick

DuplicateSpec == Init /\ [][DuplicateNext]_vars

\* The step is a call of Enqueue or EnqueueTx that reached the store.
EnqueueStep == nextId' # nextId

\* The idempotency keys of the table.
Keys(rs) == {rs[i].idempotency_key : i \in DOMAIN rs}

\* C30 -- A duplicate publish is a no-op on the existing row: a call of
\* Enqueue or EnqueueTx leaves every row of the table as it was, adds a row
\* only under a key the table did not hold, and leaves the workers and the
\* handler invocations counted for the existing rows as they were.
DuplicatePublishNoOp ==
    [][EnqueueStep =>
          /\ \A i \in DOMAIN rows : i \in DOMAIN rows' /\ rows'[i] = rows[i]
          /\ \A i \in DOMAIN rows : hist'[i] = hist[i]
          /\ \A i \in DOMAIN rows' \ DOMAIN rows :
                rows'[i].idempotency_key \notin Keys(rows)
          /\ Cardinality(DOMAIN rows' \ DOMAIN rows) <= 1
          /\ wk' = wk]_vars

\* An event that was processed after one failure has been published again:
\* the id sequence has moved on, the table still holds the one row.
DuplicatePublishNoOpWitness ==
    /\ nextId = 3
    /\ DOMAIN rows = {1}
    /\ rows[1].status = OutboxStatusProcessed
    /\ rows[1].attempts = 1
    /\ <<rows[1].idempotency_key, "nil", TRUE>> \in pubLog

\* ------------------------------------------------ the push handler

\* Bounds of a Handle call: tokens in the payload, tickets SendPush returns.
MaxTokens == 1
MaxTickets == 2

\* expo: the error codes of a ticket.
ErrorDeviceNotRegistered == "DeviceNotRegistered"
ErrorMessageTooBig == "MessageTooBig"
ErrorMessageRateExceeded == "MessageRateExceeded"
ErrorInvalidCredentials == "InvalidCredentials"

\* Error codes a ticket can carry: the four known ones, the empty string
\* and one the handler does not know.
TicketCodes ==
    {"", ErrorDeviceNotRegistered, ErrorMessageTooBig,
     ErrorMessageRateExceeded, ErrorInvalidCredentials, "ProviderError"}

\* expo.PushTicket: Status and Details (nil, or a TicketError).
PushTickets ==
    [status : {"ok", "error"},
     details : {[present |-> FALSE, error |-> ""]}
                 \cup [present : {TRUE}, error : TicketCodes]]

\* events.Permanent: nil stays nil, any other error becomes non-retryable.
Permanent(err) == IF err = "nil" THEN "nil" ELSE "permanent"

\* The code read from a ticket: "" when Details is nil.
errorCode(ticket) ==
    IF ticket.details.present THEN ticket.details.error ELSE ""

\* The switch with no default branch: only the rate limit is retried.
transientTicketKnownOnly(ticket) ==
    /\ ticket.status = "error"
    /\ errorCode(ticket) = ErrorMessageRateExceeded

\* The loop body of Handle: the ticket is appended to transientFailures.
transientTicket(ticket) ==
    /\ ticket.status = "error"
    /\ CASE errorCode(ticket) = ErrorMessageRateExceeded -> TRUE
         [] errorCode(ticket) \in {ErrorDeviceNotRegistered, ErrorMessageTooBig,
                                   ErrorInvalidCredentials} -> FALSE
         [] OTHER -> TRUE

\* transientFailures after the loop over tickets[1..n].
RECURSIVE transientFailures(_, _)
transientFailures(tickets, n) ==
    IF n = 0 THEN <<>>
    ELSE LET rest == transientFailures(tickets, n - 1) IN
         IF transientTicket(tickets[n]) THEN Append(rest, errorCode(tickets[n]))
         ELSE rest

\* PushNotificationHandler.Handle: decodes says whether json.Unmarshal
\* accepted the payload, tokens and body are the decoded fields, sendErr and
\* tickets are what SendPush returns.
Handle(decodes, tokens, body, sendErr, tickets) ==
    IF ~decodes THEN Permanent("transient")
    ELSE IF tokens = 0 THEN Permanent("transient")
    ELSE IF body = "" THEN Permanent("transient")
    ELSE IF sendErr THEN "transient"
    ELSE IF Len(transientFailures(tickets, Len(tickets))) > 0 THEN "transient"
    ELSE "nil"

\* Ticket sequences of at most MaxTickets tickets.
TicketSeqs == UNION {[1..n -> PushTickets] : n \in 0..MaxTickets}

\* A notification.push event reaches the handler: any payload, any answer
\* of the provider.
PushInit ==
    /\ MainInit
    /\ bk = NoBackoff
    /\ reg = StartedReg
    /\ life = [w \in Workers |-> StartedLife]
    /\ lastPub = NoPub
    /\ sf = NoFaults
    /\ fifo = NoClaim
    /\ push \in [decodes : BOOLEAN, tokens : 0..MaxTokens, body : {"", "hi"},
                 sendErr : BOOLEAN, tickets : TicketSeqs, err : {"none"}]
    /\ calls = NoCalls

\* The call of Handle.
HandleCall ==
    /\ push.err = "none"
    /\ push' = [push EXCEPT !.err = Handle(push.decodes, push.tokens, push.body,
                                           push.sendErr, push.tickets)]
    /\ UNCHANGED <<now, rows, nextId, messages, nextMsgId, tx, wk, crashes,
                   hist, pubLog, txLog, bk, reg, life, lastPub, sf, fifo, calls>>

PushNext == HandleCall

PushSpec == PushInit /\ [][PushNext]_vars

\* The error tickets of the call.
ErrorTickets == {i \in DOMAIN push.tickets : push.tickets[i].status = "error"}
\* The codes after which a notification is dropped.
TerminalCodes ==
    {ErrorDeviceNotRegistered, ErrorMessageTooBig, ErrorInvalidCredentials}
\* The payload passes the checks made before SendPush.
Sendable == push.decodes /\ push.tokens > 0 /\ push.body # ""

\* C31: Handle returns a permanent error when the payload cannot be decoded,
\* has no tokens or has an empty body; otherwise a transient error when
\* SendPush fails or some error ticket carries a code other than the three
\* terminal ones (the rate limit, an unknown code, the empty code, no
\* details); otherwise nil, that is exactly when every error ticket carries
\* a terminal code or there is no error ticket.
PushClassification ==
    push.err # "none" =>
        /\ IsPermanent(push.err) <=> ~Sendable
        /\ (Sendable /\ push.sendErr) => push.err = "transient"
        /\ (Sendable /\ ~push.sendErr) =>
              (push.err = "nil" <=>
                  \A i \in ErrorTickets :
                      /\ push.tickets[i].details.present
                      /\ push.tickets[i].details.error \in TerminalCodes)
        /\ push.err \in Outcomes

\* A call returned nil although a ticket reported a terminal error, after
\* another ticket was accepted.
PushClassificationWitness ==
    /\ push.err = "nil"
    /\ Len(push.tickets) = 2
    /\ push.tickets[1].status = "ok"
    /\ push.tickets[2].status = "error"
    /\ push.tickets[2].details.error = ErrorDeviceNotRegistered

\* ------------------------------------- invocations across workers and time

\* Worker w's handler is running for event i.
InFlight(w, i) ==
    /\ wk[w].pc = "handling"
    /\ Head(wk[w].batch).id = i
    /\ Invokes(Head(wk[w].batch))

\* C32: no two handler invocations for the same event run at the same time,
\* also when a handler or a batch takes longer than the stuck threshold.
SingleInvocationInFlight ==
    \A i \in DOMAIN rows : \A w1, w2 \in Workers :
        (InFlight(w1, i) /\ InFlight(w2, i)) => w1 = w2

\* C33: the handler is invoked at most MaxAttempts times for an event,
\* counting every worker, crash and stuck-row requeue.
BoundedInvocations ==
    \A i \in DOMAIN rows : hist[i].dispatches <= MaxAttempts

\* C34: every row has 0 <= attempts <= MaxAttempts, and a row that is
\* pending or processing has attempts < MaxAttempts (all workers share
\* MaxAttempts).
AttemptsWithinCap ==
    \A i \in DOMAIN rows :
        /\ rows[i].attempts \in 0..MaxAttempts
        /\ rows[i].status \in {OutboxStatusPending, OutboxStatusProcessing}
              => rows[i].attempts < MaxAttempts

\* A row is failed with attempts at the cap after more handler invocations
\* than the cap: a requeue of the stuck row came in between.
AttemptsWithinCapWitness ==
    \E i \in DOMAIN rows :
        /\ rows[i].status = OutboxStatusFailed
        /\ rows[i].attempts = MaxAttempts
        /\ hist[i].dispatches = MaxDispatch
        /\ hist[i].tainted

\* C35: the attempts value stored for a row never decreases, also when a
\* worker records its outcome from a snapshot taken before the row was
\* requeued and retried by others.
AttemptsNeverDecrease ==
    [][\A i \in DOMAIN rows : rows'[i].attempts >= rows[i].attempts]_vars

\* ------------------------------------------------------- Stop and the loop

\* The goroutines are scheduled, handlers return, a select with stopCh
\* closed takes that case sooner or later, and a Stop waiting on the closed
\* doneCh returns.
StopFairness ==
    /\ LifeFairness
    /\ \A w \in Workers :
          /\ SF_vars(LoopExit(w))
          /\ WF_vars(StopReturn(w))

StopLiveSpec == LifeSpec /\ StopFairness

\* C36: every call of Stop returns in the end, whether or not Start was
\* called before, given that the cycle under way finishes.
StopTerminates ==
    \A w \in Workers : life[w].stopOnce ~> life[w].stopped

\* The same for a worker that was started.
StartedStopTerminates ==
    \A w \in Workers :
        (life[w].stopOnce /\ life[w].startOnce) ~> life[w].stopped

\* C37: once stopCh is closed the loop begins no further cycle after the
\* one under way, also when a tick is waiting in ticker.C.
NoCycleAfterStop ==
    [][\A w \in Workers :
          (CycleBeginStep(w) /\ life[w].loop = "running") => ~life[w].stopCh]_vars

\* ------------------------------------------- repeated Start and Stop calls

\* The process's worker (InitializeWorkers builds one per process).
HostWorker == CHOOSE w \in Workers : TRUE

\* Everything but life and calls.
CallFrame == <<now, rows, nextId, messages, nextMsgId, tx, wk, crashes, hist,
               pubLog, txLog, bk, reg, lastPub, sf, fifo, push>>

\* A call of Start by caller c: startOnce runs "go w.loop()" for the first
\* call only; the call returns.
StartBy(c) ==
    /\ calls.start[c] = "idle"
    /\ LET first == ~life[HostWorker].startOnce IN
         /\ life' = IF first
                    THEN [life EXCEPT ![HostWorker].startOnce = TRUE,
                                      ![HostWorker].loop = "spawned"]
                    ELSE life
         /\ calls' = [calls EXCEPT !.start[c] = "returned",
                                   !.loops = IF first THEN @ + 1 ELSE @]
    /\ UNCHANGED CallFrame

\* Stop whose later calls return at once while the first is still waiting
\* for doneCh.
StopEnterNotWaiting(c) ==
    /\ calls.stop[c] = "idle"
    /\ LET l == life[HostWorker] IN
         /\ life' = IF l.stopOnce THEN life
                    ELSE [life EXCEPT ![HostWorker].stopOnce = TRUE,
                                      ![HostWorker].stopCh = TRUE]
         /\ calls' = [calls EXCEPT
                        !.stop[c] = IF l.stopOnce THEN "returned" ELSE "inside",
                        !.closes = IF l.stopOnce THEN @ ELSE @ + 1]
    /\ UNCHANGED CallFrame

\* A call of Stop by caller c enters stopOnce.Do: the first call closes
\* stopCh and goes on to receive from doneCh; a call made while the first is
\* inside waits for it; a call made after the first has returned returns.
StopEnter(c) ==
    /\ calls.stop[c] = "idle"
    /\ LET l == life[HostWorker] IN
         /\ life' = IF l.stopOnce THEN life
                    ELSE [life EXCEPT ![HostWorker].stopOnce = TRUE,
                                      ![HostWorker].stopCh = TRUE]
         /\ calls' = [calls EXCEPT
                        !.stop[c] = IF l.stopped THEN "returned"
                                    ELSE IF l.stopOnce THEN "waiting"
                                    ELSE "inside",
                        !.closes = IF l.stopOnce THEN @ ELSE @ + 1]
    /\ UNCHANGED CallFrame

\* The first call receives from the closed doneCh and returns.
StopFinish(c) ==
    /\ calls.stop[c] = "inside"
    /\ life[HostWorker].doneCh
    /\ life' = [life EXCEPT ![HostWorker].stopped = TRUE]
    /\ calls' = [calls EXCEPT !.stop[c] = "returned"]
    /\ UNCHANGED CallFrame

\* A call that waited for the first returns after it.
StopUnblock(c) ==
    /\ calls.stop[c] = "waiting"
    /\ life[HostWorker].stopped
    /\ calls' = [calls EXCEPT !.stop[c] = "returned"]
    /\ UNCHANGED <<CallFrame, life>>

CallInit == LifeInit

CallNext ==
    \/ \E c \in StartCallers : StartBy(c)
    \/ \E c \in StopCallers : StopEnter(c)
    \/ \E c \in StopCallers : StopFinish(c)
    \/ \E c \in StopCallers : StopUnblock(c)
    \/ LoopFirstCycle(HostWorker)
    \/ TickerFire(HostWorker)
    \/ LoopTickCycle(HostWorker)
    \/ LoopExit(HostWorker)
    \/ ClaimSelect(HostWorker)
    \/ ClaimCommit(HostWorker)
    \/ \E outcome \in Outcomes : HandlerReturn(HostWorker, outcome)
    \/ Mark(HostWorker)
    \/ Tick

CallSpec == CallInit /\ [][CallNext]_vars

\* Calls of Start, of Stop, that have entered their Once.
StartsMade == {c \in StartCallers : calls.start[c] # "idle"}
StopsMade == {c \in StopCallers : calls.stop[c] # "idle"}

\* C38: however many times Start is called, one loop goroutine is
\* launched; however many times Stop is called, stopCh is closed once (a
\* second close would panic) and each call returns only after the loop has
\* exited.
StartStopIdempotent ==
    /\ calls.loops = IF StartsMade = {} THEN 0 ELSE 1
    /\ calls.closes = IF StopsMade = {} THEN 0 ELSE 1
    /\ \A c \in StopCallers :
          calls.stop[c] = "returned" =>
             /\ life[HostWorker].loop = "exited"
             /\ life[HostWorker].doneCh

\* Start was called twice and launched one loop; Stop was called twice and
\* closed stopCh once: the first call is waiting for the loop, which is in
\* a cycle, and the second call is waiting for the first.
StartStopIdempotentWitness ==
    /\ \A c \in StartCallers : calls.start[c] = "returned"
    /\ \E c1, c2 \in StopCallers :
          calls.stop[c1] = "inside" /\ calls.stop[c2] = "waiting"
    /\ calls.loops = 1
    /\ calls.closes = 1
    /\ InCycle(HostWorker)

\* ---------------------------------------------------------- event identity

\* The columns that say which event a row is.
Identity(row) ==
    <<row.id, row.event_type, row.aggregate_type, row.aggregate_id,
      row.idempotency_key, row.payload>>

\* C39: once a row is inserted no store operation (ClaimPending,
\* MarkProcessed, MarkRetry, MarkFailed, RequeueStuckProcessing, an Enqueue
\* of its key again) changes its id, event_type, aggregate_type,
\* aggregate_id, idempotency_key or payload, and no operation deletes it.
IdentityImmutable ==
    [][\A i \in DOMAIN rows :
          /\ i \in DOMAIN rows'
          /\ Identity(rows'[i]) = Identity(rows[i])]_vars

\* A row was claimed, requeued as stuck, retried and failed at the cap, and
\* its key was published again while the row existed.
IdentityImmutableWitness ==
    \E i \in DOMAIN rows :
       /\ rows[i].status = OutboxStatusFailed
       /\ rows[i].attempts = MaxAttempts
       /\ rows[i].id = i
       /\ rows[i].payload = Marshal("struct").raw
       /\ hist[i].tainted
       /\ <<rows[i].idempotency_key, "nil", TRUE>> \in pubLog

====
